---- MODULE Spec2Model ----
(***************************************************************************)
(* Request pipeline of the prompt rewriter: the POST handlers of the       *)
(* rewrite endpoint (src/src/app/api/rewrite/route.ts and its later        *)
(* revision in src/unnamed/part_002) and of the self-improve endpoint      *)
(* (src/unnamed/part_002), with the token budget estimator, the search     *)
(* augmenter and the retrying completion invoker they call.                *)
(*                                                                         *)
(* Texts whose content does not matter to the pipeline (system             *)
(* instructions, the user prompt, the user message) are carried by their   *)
(* length in UTF-16 code units, which is what String.length returns.       *)
(***************************************************************************)
EXTENDS Integers, Sequences, FiniteSets, TLC

VARIABLES
  req,            \* the request body and the process environment it meets
  pc,             \* where the handler stands
  attempt,        \* loop variable of callGroqWithRetry
  calls,          \* completions requested from the provider so far
  waits,          \* backoff delays awaited so far, in ms
  errs,           \* errors the provider has thrown so far
  searchCalls,    \* GETs sent to the search transport so far
  webData, webSources, webAccessUsed,
  userMsg,        \* the user message built for the provider
  budget,         \* what validateTokenLimits computed
  completion,     \* what the provider returned
  resp,           \* the HTTP response
  output,         \* the body of a success response
  searchLog,      \* how each search call ended
  pending,        \* outbound operations awaited and not yet settled
  sent,           \* the completion requests sent to the provider so far
  suspended,      \* the requests that wait at an await while this one runs
  webResult,      \* what performWebSearch returned to POST
  thrown,         \* the Error on its way to the catch block of POST
  page,           \* state of the client page (Home)
  decrypted       \* state of the DecryptedText component

vars == <<req, pc, attempt, calls, waits, errs, searchCalls,
          webData, webSources, webAccessUsed, userMsg, budget, completion, resp,
          output, searchLog, pending, sent, suspended, webResult, thrown,
          page, decrypted>>

\* the variables of the server side
server == <<req, pc, attempt, calls, waits, errs, searchCalls,
            webData, webSources, webAccessUsed, userMsg, budget, completion, resp,
            output, searchLog, pending, sent, suspended, webResult, thrown>>

(***************************************************************************)
(* Bounds of the exploration.                                              *)
(***************************************************************************)
\* prompt lengths are explored this far on both sides of the budget edge
LenSpread == 4
\* most organic results in one search reply
MaxResults == 2

(***************************************************************************)
(* Configuration and catalogues.                                           *)
(***************************************************************************)
Endpoints == {"rewrite", "rewriteV2", "selfImprove"}
RewriteEndpoints == {"rewrite", "rewriteV2"}

maxContextTokens == 131072
maxCompletionTokens == 32768
charToTokenRatio == 4

ERROR_MESSAGES(e) ==
  [RATE_LIMIT |-> "Service is experiencing high demand. Please wait a moment and try again.",
   PAYLOAD_TOO_LARGE |-> IF e = "selfImprove"
        THEN "Your content is too long. Please shorten it and try again."
        ELSE "Your prompt is too long. Please shorten it and try again.",
   NETWORK_TIMEOUT |-> "Request timed out. Please check your connection and try again.",
   INVALID_API_KEY |-> "Service configuration error. Please contact support.",
   SERVICE_UNAVAILABLE |-> "Service temporarily unavailable. Please try again in a few minutes.",
   GENERIC_ERROR |-> "An unexpected error occurred. Please try again."]

\* String.length of the system instructions of each mode key, per endpoint
SYSTEM_INSTRUCTIONS(e) ==
  CASE e = "rewrite" ->
         ("question-research" :> 496) @@ ("report-writing" :> 1402) @@
         ("coding-agent" :> 513) @@ ("multi-tool-agent" :> 497) @@
         ("document-rewriting" :> 651) @@ ("framework-optimization" :> 1341) @@
         ("content-generation" :> 536)
    [] e = "rewriteV2" ->
         ("question-research" :> 1913) @@ ("report-writing" :> 1829) @@
         ("coding-agent" :> 1901) @@ ("multi-tool-agent" :> 1621) @@
         ("document-rewriting" :> 1812) @@ ("framework-optimization" :> 1877) @@
         ("content-generation" :> 1524) @@ ("context-engineering" :> 3325) @@
         ("ultimate-mode" :> 4394)
    [] e = "selfImprove" ->
         ("question-research" :> 567) @@ ("report-writing" :> 1455) @@
         ("coding-agent" :> 570) @@ ("multi-tool-agent" :> 779) @@
         ("document-rewriting" :> 657) @@ ("framework-optimization" :> 1805) @@
         ("content-generation" :> 586)

VALID_MODES(e) == DOMAIN SYSTEM_INSTRUCTIONS(e)

\* Object.keys(SYSTEM_INSTRUCTIONS): the mode keys in the order of the source
ModeKeys(e) ==
  <<"question-research", "report-writing", "coding-agent", "multi-tool-agent",
    "document-rewriting", "framework-optimization", "content-generation">>
    \o (IF e = "rewriteV2" THEN <<"context-engineering", "ultimate-mode">> ELSE <<>>)

\* keys.join(', ')
RECURSIVE JoinComma(_)
JoinComma(keys) ==
  IF keys = <<>> THEN ""
  ELSE IF Len(keys) = 1 THEN keys[1]
  ELSE keys[1] \o ", " \o JoinComma(Tail(keys))

\* the reply to a mode that is not a key of the registry
InvalidModeMessage(e) ==
  (IF e = "selfImprove" THEN "mode is required and must be one of: "
                        ELSE "Invalid mode. Valid modes are: ")
    \o JoinComma(ModeKeys(e))

\* the bodies that cannot be read: request.json() rejects an empty body and
\* a text that is not JSON, and the value null cannot be destructured
BadBodies == {"", "not json", "null"}

\* the message of the error that such a body raises in POST
BodyErrorMessage(e, body) ==
  CASE body = "" -> "Unexpected end of JSON input"
    [] body = "not json" -> "Unexpected token 'o', \"not json\" is not valid JSON"
    [] body = "null" ->
         "Cannot destructure property '"
           \o (IF e = "selfImprove" THEN "currentOutput" ELSE "userPrompt")
           \o "' of '(intermediate value)' as it is null."

\* SYSTEM_INSTRUCTIONS[mode].length; -1 when the lookup gives undefined
SystemLength(e, mode) ==
  IF mode \in DOMAIN SYSTEM_INSTRUCTIONS(e) THEN SYSTEM_INSTRUCTIONS(e)[mode] ELSE -1

\* String.length of the display name; an unlisted key is its own name
getModeDisplayName(e, mode) ==
  LET common == ("question-research" :> 22) @@ ("report-writing" :> 19) @@
                ("coding-agent" :> 17) @@ ("multi-tool-agent" :> 21) @@
                ("document-rewriting" :> 23) @@ ("framework-optimization" :> 27) @@
                ("content-generation" :> 23)
      extra  == ("context-engineering" :> 24) @@ ("ultimate-mode" :> 13)
      names  == IF e = "rewrite" THEN common ELSE common @@ extra
  IN IF mode \in DOMAIN names THEN names[mode] ELSE Len(mode)

PLACEHOLDER_KEY == "your-key-here"


(***************************************************************************)
(* Token budget estimator.                                                 *)
(***************************************************************************)
\* Math.floor in place of Math.ceil
estimateTokenCountFloor(len) == len \div charToTokenRatio

\* Math.ceil(text.length / charToTokenRatio), on the length of the text
estimateTokenCount(len) ==
  IF len % charToTokenRatio = 0
    THEN len \div charToTokenRatio
    ELSE (len \div charToTokenRatio) + 1

\* the estimates with the system instructions left out of the total
TokenEstimatesNoSystem(e, sysLen, userLen, webLen) ==
  LET systemTokens == estimateTokenCount(sysLen)
      userTokens   == estimateTokenCount(userLen)
      webTokens    == IF e = "selfImprove" THEN 0 ELSE estimateTokenCount(webLen)
  IN [systemTokens |-> systemTokens, userTokens |-> userTokens,
      webTokens |-> webTokens,
      totalInputTokens |-> userTokens + webTokens]

\* the estimates that validateTokenLimits computes and logs; the
\* self-improve variant has no web component
TokenEstimates(e, sysLen, userLen, webLen) ==
  LET systemTokens == estimateTokenCount(sysLen)
      userTokens   == estimateTokenCount(userLen)
      webTokens    == IF e = "selfImprove" THEN 0 ELSE estimateTokenCount(webLen)
  IN [systemTokens |-> systemTokens, userTokens |-> userTokens,
      webTokens |-> webTokens,
      totalInputTokens |-> systemTokens + userTokens + webTokens]

\* the comparison against the whole context window
validateTokenLimitsWholeWindow(e, sysLen, userLen, webLen) ==
  TokenEstimates(e, sysLen, userLen, webLen).totalInputTokens <= maxContextTokens

\* totalInputTokens <= maxContextTokens * 0.8, in tenths to stay in integers
validateTokenLimits(e, sysLen, userLen, webLen) ==
  TokenEstimates(e, sysLen, userLen, webLen).totalInputTokens * 10
      <= maxContextTokens * 8

(***************************************************************************)
(* User message: its length and whether it embeds the web data.            *)
(***************************************************************************)
RewriteUserMessage(e, mode, promptLen, used, webLen) ==
  IF mode = "content-generation" THEN
    IF used
      THEN Len("Use this current information to enhance your content: ") + webLen
           + Len("\n\nGenerate complete, publication-ready content for: ") + promptLen
      ELSE Len("Generate complete, publication-ready content for: ") + promptLen
  ELSE IF mode = "document-rewriting" THEN
    IF used
      THEN Len("Context for enhancement: ") + webLen
           + Len("\n\nTransform this content into a professional document:\n\n") + promptLen
      ELSE Len("Transform this content into a professional document:\n\n") + promptLen
  ELSE
    IF used
      THEN Len("Context: ") + webLen + Len("\n\nREWRITE THIS SPECIFIC PROMPT for ")
           + getModeDisplayName(e, mode) + Len(":\n\"") + promptLen
           + Len("\"\n\nApply your mode's specialization to THEIR specific request. Do not create generic examples.")
      ELSE Len("REWRITE THIS SPECIFIC PROMPT for ")
           + getModeDisplayName(e, mode) + Len(":\n\"") + promptLen
           + Len("\"\n\nApply your mode's specialization to THEIR specific request. Do not create generic examples.")

RefinementPrompt(outputLen) ==
  Len("Improve this output following your mode instructions. Enhance clarity, completeness, and effectiveness while maintaining the original intent.\n\nCurrent Output:\n")
  + outputLen + Len("\n\nProvide only the improved version.")

\* the user message built without the web data, whatever the search gave
UserMessageNoContext(e, mode, promptLen, used, webLen) ==
  IF e = "selfImprove"
    THEN [len |-> RefinementPrompt(promptLen), hasWeb |-> FALSE]
    ELSE [len |-> RewriteUserMessage(e, mode, promptLen, FALSE, webLen), hasWeb |-> FALSE]

\* userMessage of POST: the refinement prompt of self-improve, or the
\* message of rewrite, with the web data when webAccessUsed
UserMessage(e, mode, promptLen, used, webLen) ==
  IF e = "selfImprove"
    THEN [len |-> RefinementPrompt(promptLen), hasWeb |-> FALSE]
    ELSE [len |-> RewriteUserMessage(e, mode, promptLen, used, webLen), hasWeb |-> used]

(***************************************************************************)
(* Search augmenter.                                                       *)
(***************************************************************************)
\* A prompt is carried with what extractSearchTerms looks at: "keyword" when
\* it contains one of the topic keywords, "long" when it has no keyword but
\* a word of more than 3 characters, "short" otherwise.

\* the meaningful-word filter without its length test: every prompt gives terms
extractSearchTermsAnyWord(prompt) ==
  IF prompt.words = "keyword" THEN "template" ELSE "words"

\* extractSearchTerms: a topic template, else the meaningful words, else null
extractSearchTerms(prompt) ==
  IF prompt.words = "keyword" THEN "template"
  ELSE IF prompt.words = "long" THEN "words"
  ELSE "null"

\* the filter with the test of the snippet alone
RECURSIVE searchDataSnippetOnly(_)
searchDataSnippetOnly(results) ==
  IF results = <<>> THEN <<>>
  ELSE LET r == Head(results) IN
       IF r.snippet # ""
         THEN <<r>> \o searchDataSnippetOnly(Tail(results))
         ELSE searchDataSnippetOnly(Tail(results))

\* results.map(title, snippet, link || '').filter(item.title && item.snippet)
RECURSIVE searchData(_)
searchData(results) ==
  IF results = <<>> THEN <<>>
  ELSE LET r == Head(results) IN
       IF r.title # "" /\ r.snippet # ""
         THEN <<r>> \o searchData(Tail(results))
         ELSE searchData(Tail(results))

\* searchData.map(`${title}: ${snippet}`).join('\n\n')
RECURSIVE joinData(_)
joinData(items) ==
  IF items = <<>> THEN ""
  ELSE IF Len(items) = 1 THEN items[1].title \o ": " \o items[1].snippet
  ELSE items[1].title \o ": " \o items[1].snippet \o "\n\n" \o joinData(Tail(items))

\* what performWebSearch returns once axios.get has settled
SearchResult(outcome) ==
  IF outcome.throws \/ outcome.results = <<>>
    THEN [data |-> "", sources |-> <<>>]
    ELSE LET kept == searchData(outcome.results)
         IN [data |-> joinData(kept),
             sources |-> [i \in 1..Len(kept) |-> kept[i].link]]

\* the search branch taken for every mode
WantsSearchEveryMode(r) ==
  r.enableWebAccess \/ r.mode \in VALID_MODES(r.endpoint)


\* the guard of the search branch in POST
WantsSearch(r) ==
  r.enableWebAccess \/ r.mode = "content-generation" \/ r.mode = "document-rewriting"

(***************************************************************************)
(* Completion invoker: one catch block of callGroqWithRetry.               *)
(***************************************************************************)
\* one retry more than the default
retriesFour == 3 + 1
retries == 3
delays == <<1000, 2000, 4000>>

\* delays[attempt + 1]: the schedule read one slot too far
DelayAtNext(a) == IF a + 2 \in DOMAIN delays THEN delays[a + 2] ELSE 0

\* delays[attempt]; past the end of the array the timer gets undefined and
\* fires without delay
DelayAt(a) == IF a + 1 \in DOMAIN delays THEN delays[a + 1] ELSE 0

\* a last-attempt test that no attempt of the loop meets
IsLastAttemptNever(a) == a = retries

\* attempt === retries - 1
IsLastAttempt(a) == a = retries - 1

\* String.prototype.includes
includes(text, part) ==
  \E i \in 1..(Len(text) - Len(part) + 1) : SubSeq(text, i, i + Len(part) - 1) = part

\* error.message?.includes('timeout')
MessageIncludesTimeout(msg) == includes(msg, "timeout")

Retry(d) == [kind |-> "retry", delay |-> d, message |-> ""]
Throw(m) == [kind |-> "throw", delay |-> 0, message |-> m]

\* the rate-limit wait without the doubling
RateLimitDelayPlain(a) == DelayAt(a)

\* const delay = delays[attempt] * 2
RateLimitDelay(a) == DelayAt(a) * 2

\* error.status === 429; status 0 stands for an error without a status field
IsRateLimit(err) == err.status = 429

\* a payload test on the wrong status
IsPayloadTooLarge414(err) == err.status = 414

\* error.status === 413
IsPayloadTooLarge(err) == err.status = 413

\* error.code === 'ECONNABORTED' || error.message?.includes('timeout')
IsTimeout(err) == err.code = "ECONNABORTED" \/ MessageIncludesTimeout(err.message)

\* a credential test that forgets 403
IsUnauthorized401(err) == err.status = 401

\* error.status === 401 || error.status === 403
IsUnauthorized(err) == err.status = 401 \/ err.status = 403

\* a server test that takes the client errors too
IsServerErrorFrom400(err) == err.status >= 400

\* error.status >= 500
IsServerError(err) == err.status >= 500

\* the catch block with the credential test moved ahead of the timeout test
HandleErrorAuthFirst(e, err, a) ==
  LET M == ERROR_MESSAGES(e) IN
  IF IsRateLimit(err) THEN
    IF ~IsLastAttempt(a) THEN Retry(RateLimitDelay(a)) ELSE Throw(M.RATE_LIMIT)
  ELSE IF IsPayloadTooLarge(err) THEN
    Throw(M.PAYLOAD_TOO_LARGE)
  ELSE IF IsUnauthorized(err) THEN
    Throw(M.INVALID_API_KEY)
  ELSE IF IsTimeout(err) THEN
    IF ~IsLastAttempt(a) THEN Retry(DelayAt(a)) ELSE Throw(M.NETWORK_TIMEOUT)
  ELSE IF IsServerError(err) THEN
    IF ~IsLastAttempt(a) THEN Retry(DelayAt(a)) ELSE Throw(M.SERVICE_UNAVAILABLE)
  ELSE IF IsLastAttempt(a) THEN
    Throw(M.GENERIC_ERROR)
  ELSE Retry(DelayAt(a))

\* the catch block: what it does with the error of attempt a
HandleError(e, err, a) ==
  LET M == ERROR_MESSAGES(e) IN
  IF IsRateLimit(err) THEN
    IF ~IsLastAttempt(a) THEN Retry(RateLimitDelay(a)) ELSE Throw(M.RATE_LIMIT)
  ELSE IF IsPayloadTooLarge(err) THEN
    Throw(M.PAYLOAD_TOO_LARGE)
  ELSE IF IsTimeout(err) THEN
    IF ~IsLastAttempt(a) THEN Retry(DelayAt(a)) ELSE Throw(M.NETWORK_TIMEOUT)
  ELSE IF IsUnauthorized(err) THEN
    Throw(M.INVALID_API_KEY)
  ELSE IF IsServerError(err) THEN
    IF ~IsLastAttempt(a) THEN Retry(DelayAt(a)) ELSE Throw(M.SERVICE_UNAVAILABLE)
  ELSE IF IsLastAttempt(a) THEN
    Throw(M.GENERIC_ERROR)
  ELSE Retry(DelayAt(a))

(***************************************************************************)
(* Response normalizer: cleanResponse, on the text itself.  The texts are   *)
(* ASCII, the only characters a module can hold: the white space beyond    *)
(* ASCII (U+00A0, U+FEFF, U+2028, ...) occurs in no text here, and the      *)
(* bullet U+2022 of the source is written as the character Bullet.         *)
(***************************************************************************)
\* U+000B, the vertical tab, as the character itself (there is no escape
\* for it)
VerticalTab == ""

\* the ASCII characters that \s and trim() take for white space
WhiteSpace == {" ", "\t", "\n", "\r", "\f", VerticalTab}

\* the bullet of the source, U+2022: one character that is no white space,
\* no letter, no digit, no quote and no punctuation of any pattern of
\* cleanResponse.  A module holds ASCII only, so the texts carry U+0007 (the
\* character itself, there is no escape for it) in the place of U+2022; no
\* pattern of the source names U+0007, so it is told apart from every other
\* character exactly as U+2022 is.
Bullet == ""

IsSpace(c) == c \in WhiteSpace

DropFirst(s, n) == SubSeq(s, n + 1, Len(s))

\* characters from..to of s, as far as s has them
Slice(s, from, to) == SubSeq(s, from, IF to > Len(s) THEN Len(s) ELSE to)

RECURSIVE TrimStart(_)
TrimStart(s) ==
  IF s # "" /\ IsSpace(Head(s)) THEN TrimStart(Tail(s)) ELSE s

RECURSIVE TrimEnd(_)
TrimEnd(s) ==
  IF s # "" /\ IsSpace(SubSeq(s, Len(s), Len(s)))
    THEN TrimEnd(SubSeq(s, 1, Len(s) - 1)) ELSE s

\* String.prototype.trim
trim(s) == TrimEnd(TrimStart(s))

LowerChar(c) ==
  CASE c = "A" -> "a" [] c = "B" -> "b" [] c = "C" -> "c" [] c = "D" -> "d"
    [] c = "E" -> "e" [] c = "F" -> "f" [] c = "G" -> "g" [] c = "H" -> "h"
    [] c = "I" -> "i" [] c = "J" -> "j" [] c = "K" -> "k" [] c = "L" -> "l"
    [] c = "M" -> "m" [] c = "N" -> "n" [] c = "O" -> "o" [] c = "P" -> "p"
    [] c = "Q" -> "q" [] c = "R" -> "r" [] c = "S" -> "s" [] c = "T" -> "t"
    [] c = "U" -> "u" [] c = "V" -> "v" [] c = "W" -> "w" [] c = "X" -> "x"
    [] c = "Y" -> "y" [] c = "Z" -> "z" [] OTHER -> c

StartsWith(s, p) == Len(s) >= Len(p) /\ SubSeq(s, 1, Len(p)) = p
EndsWith(s, p) == Len(s) >= Len(p) /\ SubSeq(s, Len(s) - Len(p) + 1, Len(s)) = p

\* equality of two texts under the i flag
EqualCI(s, p) ==
  /\ Len(s) = Len(p)
  /\ \A i \in 1..Len(p) : LowerChar(SubSeq(s, i, i)) = LowerChar(SubSeq(p, i, i))

StartsWithCI(s, p) == Len(s) >= Len(p) /\ EqualCI(SubSeq(s, 1, Len(p)), p)
EndsWithCI(s, p) ==
  Len(s) >= Len(p) /\ EqualCI(SubSeq(s, Len(s) - Len(p) + 1, Len(s)), p)

Least(S) == CHOOSE i \in S : \A j \in S : i <= j
Greatest(S) == CHOOSE i \in S : \A j \in S : i >= j

\* text.replace(pattern, replacement) under the g flag, for a pattern that
\* does not look behind its match: matchLen[i] is the length of the match
\* that starts at character i of s (0 for none), replacement[i] what it is
\* replaced with; the search resumes behind each match
RECURSIVE ReplaceFrom(_, _, _, _)
ReplaceFrom(s, from, matchLen, replacement) ==
  LET hits == {i \in from..Len(s) : matchLen[i] > 0}
  IN IF hits = {} THEN DropFirst(s, from - 1)
     ELSE LET i == Least(hits)
          IN SubSeq(s, from, i - 1) \o replacement[i]
               \o ReplaceFrom(s, i + matchLen[i], matchLen, replacement)

\* the white space that starts at character i of s, as a length
SpaceRun(s, i) == Len(DropFirst(s, i - 1)) - Len(TrimStart(DropFirst(s, i - 1)))

\* prefixPatterns: each pattern as the texts its head can match, in the
\* order the regular expression tries them; every pattern then takes an
\* optional colon and the white space that follows
prefixPatterns(e) ==
  IF e = "selfImprove" THEN
    << <<"Here is the improved version">>,
       <<"The improved version is">>,
       <<"Improved version">>,
       <<"Here's the improved version">>,
       <<"Here's an improved version">>,
       <<"Enhanced version">>,
       <<"Here is an enhanced", "Here is an improved", "Here is an optimized",
         "Here is a enhanced", "Here is a improved", "Here is a optimized">>,
       <<"The enhanced version", "The improved version", "The optimized version">> >>
  ELSE
    << <<"Here is the rewritten prompt">>,
       <<"The rewritten prompt is">>,
       <<"Rewritten prompt">>,
       <<"Here's the rewritten prompt">>,
       <<"Here's a rewritten version">>,
       <<"Rewritten version">>,
       <<"Here is an improved", "Here is an optimized", "Here is an rewritten",
         "Here is a improved", "Here is a optimized", "Here is a rewritten">>,
       <<"The improved prompt", "The optimized prompt", "The rewritten prompt">> >>

\* suffixPatterns: each pattern as the texts its tail can match; every
\* pattern also takes the white space in front of the tail
suffixPatterns(e) ==
  IF e = "selfImprove" THEN
    << <<"This improved version...">>,
       <<"I hope this enhanced version helps!.", "I hope this enhanced version helps!",
         "I hope this enhanced version helps.", "I hope this enhanced version helps">>,
       <<"Let me know if you need further improvements.",
         "Let me know if you need further improvements">> >>
  ELSE
    << <<"This rewritten prompt...">>,
       <<"I hope this helps!.", "I hope this helps!",
         "I hope this helps.", "I hope this helps">>,
       <<"Let me know if you need any adjustments.",
         "Let me know if you need any adjustments">> >>

\* a prefix pattern without its optional colon
StripPrefixNoColon(s, heads) ==
  IF \E k \in DOMAIN heads : StartsWithCI(s, heads[k])
    THEN LET k == CHOOSE j \in DOMAIN heads : StartsWithCI(s, heads[j])
         IN TrimStart(DropFirst(s, Len(heads[k])))
    ELSE s

\* cleaned.replace(pattern, '') for one prefix pattern
StripPrefix(s, heads) ==
  IF \E k \in DOMAIN heads : StartsWithCI(s, heads[k])
    THEN LET k == CHOOSE j \in DOMAIN heads :
                    /\ StartsWithCI(s, heads[j])
                    /\ \A i \in 1..(j - 1) : ~StartsWithCI(s, heads[i])
             rest == DropFirst(s, Len(heads[k]))
         IN TrimStart(IF StartsWith(rest, ":") THEN Tail(rest) ELSE rest)
    ELSE s

\* cleaned.replace(pattern, '') for one suffix pattern
StripSuffix(s, tails) ==
  IF \E k \in DOMAIN tails : EndsWithCI(s, tails[k])
    THEN LET k == CHOOSE j \in DOMAIN tails :
                    /\ EndsWithCI(s, tails[j])
                    /\ \A i \in 1..(j - 1) : ~EndsWithCI(s, tails[i])
         IN TrimEnd(SubSeq(s, 1, Len(s) - Len(tails[k])))
    ELSE s

RECURSIVE StripPrefixes(_, _)
StripPrefixes(s, patterns) ==
  IF s = "" \/ patterns = <<>> THEN s
  ELSE StripPrefixes(StripPrefix(s, Head(patterns)), Tail(patterns))

RECURSIVE StripSuffixes(_, _)
StripSuffixes(s, patterns) ==
  IF s = "" \/ patterns = <<>> THEN s
  ELSE StripSuffixes(StripSuffix(s, Head(patterns)), Tail(patterns))

\* the quote test and cleaned.slice(1, -1).trim()
UnwrapQuotes(s) ==
  IF \/ (StartsWith(s, "\"") /\ EndsWith(s, "\""))
     \/ (StartsWith(s, "'") /\ EndsWith(s, "'"))
    THEN trim(SubSeq(s, 2, Len(s) - 1))
    ELSE s

\* trim, prefixes, suffixes, quotes: the part every mode goes through
CleanCommon(e, response) ==
  UnwrapQuotes(StripSuffixes(StripPrefixes(trim(response), prefixPatterns(e)),
                             suffixPatterns(e)))

\* the framework labels, in the order of the source's components array
components == <<"Role", "Context", "Task", "Format", "Rules", "Examples">>

reportSections(e) ==
  <<"Executive Summary", "Methodology", "Background", "Analysis", "Findings",
    "Recommendations", "Conclusion", "Appendices", "References", "Data Sources",
    "Research Approach", "Target Audience", "Deliverables", "Timeline",
    "Success Metrics">>
  \o (IF e = "selfImprove"
        THEN <<"Quality Assurance", "Stakeholder Communication", "Risk Assessment",
               "Implementation", "Follow-up">>
        ELSE <<>>)

\* trimmedLine.match(/^(Role|Context|Task|Format|Rules|Examples):/): the label
\* matched, "" for no match
componentMatch(trimmedLine) ==
  IF \E k \in DOMAIN components : StartsWith(trimmedLine, components[k] \o ":")
    THEN components[CHOOSE k \in DOMAIN components :
                      StartsWith(trimmedLine, components[k] \o ":")]
    ELSE ""

\* cleaned.search(/^Role:/m), counted from 0, -1 for no match
firstRoleIndex(s) ==
  LET hits == {i \in 0..(Len(s) - 5) :
                 /\ SubSeq(s, i + 1, i + 5) = "Role:"
                 /\ (i = 0 \/ SubSeq(s, i, i) \in {"\n", "\r"})}
  IN IF hits = {} THEN -1 ELSE Least(hits)

\* cleaned.split('\n')
RECURSIVE SplitLines(_)
SplitLines(s) ==
  LET breaks == {i \in 1..Len(s) : SubSeq(s, i, i) = "\n"}
  IN IF breaks = {} THEN <<s>>
     ELSE <<SubSeq(s, 1, Least(breaks) - 1)>> \o SplitLines(DropFirst(s, Least(breaks)))

\* frameworkLines.join('\n')
RECURSIVE JoinLines(_)
JoinLines(lines) ==
  IF lines = <<>> THEN ""
  ELSE IF Len(lines) = 1 THEN lines[1]
  ELSE lines[1] \o "\n" \o JoinLines(Tail(lines))

\* the line scan with the text in front of the first label kept
RECURSIVE ScanLinesKeepPreamble(_, _, _, _)
ScanLinesKeepPreamble(lines, frameworkLines, foundComponents, currentComponent) ==
  IF lines = <<>> THEN frameworkLines
  ELSE
    LET line == Head(lines)
        component == componentMatch(trim(line))
    IN IF component # "" THEN
         IF component \in foundComponents THEN frameworkLines
         ELSE ScanLinesKeepPreamble(Tail(lines),
                   (IF frameworkLines # <<>> THEN Append(frameworkLines, "")
                                             ELSE frameworkLines) \o <<line>>,
                   foundComponents \cup {component}, component)
       ELSE ScanLinesKeepPreamble(Tail(lines), Append(frameworkLines, line),
                                  foundComponents, currentComponent)

\* the for loop over lines: frameworkLines, foundComponents and
\* currentComponent are carried from line to line, and a break ends the scan
RECURSIVE ScanLines(_, _, _, _)
ScanLines(lines, frameworkLines, foundComponents, currentComponent) ==
  IF lines = <<>> THEN frameworkLines
  ELSE
    LET line == Head(lines)
        trimmedLine == trim(line)
        component == componentMatch(trimmedLine)
    IN IF component # "" THEN
         IF component \in foundComponents THEN frameworkLines
         ELSE ScanLines(Tail(lines),
                   (IF frameworkLines # <<>> THEN Append(frameworkLines, "")
                                             ELSE frameworkLines) \o <<line>>,
                   foundComponents \cup {component}, component)
       ELSE IF currentComponent # "" /\ (\/ trimmedLine = ""
                                          \/ StartsWith(trimmedLine, "-")
                                          \/ StartsWith(trimmedLine, Bullet))
         THEN ScanLines(Tail(lines), Append(frameworkLines, line),
                        foundComponents, currentComponent)
       ELSE IF currentComponent # "" /\ trimmedLine # ""
         THEN ScanLines(Tail(lines), Append(frameworkLines, line),
                        foundComponents, currentComponent)
       ELSE IF trimmedLine # "" /\ "Role" \in foundComponents
         THEN frameworkLines
       ELSE ScanLines(Tail(lines), frameworkLines, foundComponents, currentComponent)

RECURSIVE SkipNewlines(_)
SkipNewlines(s) == IF s # "" /\ Head(s) = "\n" THEN SkipNewlines(Tail(s)) ELSE s

\* cleaned.replace(/\n\n\n+/g, '\n\n')
CollapseBlankLines(s) ==
  LET MatchLen(t, i) ==
        IF Slice(t, i, i + 2) = "\n\n\n"
          THEN Len(DropFirst(t, i - 1)) - Len(SkipNewlines(DropFirst(t, i - 1)))
          ELSE 0
      Replacement(t, i) == "\n\n"
  IN ReplaceFrom(s, 1, [i \in 1..Len(s) |-> MatchLen(s, i)],
                       [i \in 1..Len(s) |-> Replacement(s, i)])

\* cleaned.replace(/^(Role|Context|Task|Format|Rules|Examples):/gm, '\n$1:'):
\* a line break goes in front of every label that starts a line
RECURSIVE InsertBreaks(_, _)
InsertBreaks(s, positions) ==
  IF positions = {} THEN s
  ELSE LET p == Greatest(positions)
       IN InsertBreaks(SubSeq(s, 1, p - 1), positions \ {p})
            \o "\n" \o DropFirst(s, p - 1)

BreakBeforeLabels(s) ==
  InsertBreaks(s, {i \in 1..Len(s) :
                     /\ i = 1 \/ SubSeq(s, i - 1, i - 1) \in {"\n", "\r"}
                     /\ componentMatch(DropFirst(s, i - 1)) # ""})

\* cleaned.replace(new RegExp('(\\S)\\s*(' + component + ':)', 'g'), '$1\n\n$2')
SeparateComponent(s, label) ==
  LET MatchLen(t, i) ==
        IF /\ ~IsSpace(SubSeq(t, i, i))
           /\ StartsWith(TrimStart(DropFirst(t, i)), label)
          THEN 1 + SpaceRun(t, i + 1) + Len(label)
          ELSE 0
      Replacement(t, i) == SubSeq(t, i, i) \o "\n\n" \o label
  IN ReplaceFrom(s, 1, [i \in 1..Len(s) |-> MatchLen(s, i)],
                       [i \in 1..Len(s) |-> Replacement(s, i)])

\* the final formatting pass, for components[from] onwards
RECURSIVE SeparateComponents(_, _)
SeparateComponents(s, from) ==
  IF s = "" \/ from > Len(components) THEN s
  ELSE SeparateComponents(SeparateComponent(s, components[from] \o ":"), from + 1)

\* the framework-optimization block
FormatFramework(cleaned) ==
  LET start == firstRoleIndex(cleaned)
      fromRole == IF start > 0 THEN DropFirst(cleaned, start) ELSE cleaned
      joined == JoinLines(ScanLines(SplitLines(fromRole), <<>>, {}, ""))
      spaced == SkipNewlines(BreakBeforeLabels(CollapseBlankLines(joined)))
  IN SeparateComponents(spaced, 2)

\* cleaned.replace(new RegExp('([.!?])\\s*(' + section + '[:\\s])', 'g'), '$1\n\n$2')
SeparateSection(s, section) ==
  LET n == Len(section)
      Closing(t, i) == Slice(TrimStart(DropFirst(t, i)), n + 1, n + 1)
      MatchLen(t, i) ==
        IF /\ SubSeq(t, i, i) \in {".", "!", "?"}
           /\ StartsWith(TrimStart(DropFirst(t, i)), section)
           /\ Len(TrimStart(DropFirst(t, i))) > n
           /\ (Closing(t, i) = ":" \/ IsSpace(Closing(t, i)))
          THEN 1 + SpaceRun(t, i + 1) + n + 1
          ELSE 0
      Replacement(t, i) == SubSeq(t, i, i) \o "\n\n" \o section \o Closing(t, i)
  IN ReplaceFrom(s, 1, [i \in 1..Len(s) |-> MatchLen(s, i)],
                       [i \in 1..Len(s) |-> Replacement(s, i)])

RECURSIVE SeparateSections(_, _)
SeparateSections(s, sections) ==
  IF s = "" \/ sections = <<>> THEN s
  ELSE SeparateSections(SeparateSection(s, Head(sections)), Tail(sections))

\* cleaned.replace(/([.!?])\s*[-<bullet>]\s*/g, '$1\n- '), <bullet> being
\* U+2022: the class has the two members '-' and Bullet
FormatBullets(s) ==
  LET MatchLen(t, i) ==
        IF /\ SubSeq(t, i, i) \in {".", "!", "?"}
           /\ Slice(TrimStart(DropFirst(t, i)), 1, 1) \in {"-", Bullet}
          THEN 1 + SpaceRun(t, i + 1) + 1 + SpaceRun(t, i + 1 + SpaceRun(t, i + 1) + 1)
          ELSE 0
      Replacement(t, i) == SubSeq(t, i, i) \o "\n- "
  IN ReplaceFrom(s, 1, [i \in 1..Len(s) |-> MatchLen(s, i)],
                       [i \in 1..Len(s) |-> Replacement(s, i)])

\* the report-writing block
FormatReport(e, cleaned) ==
  CollapseBlankLines(FormatBullets(SeparateSections(cleaned, reportSections(e))))

\* which copies of cleanResponse have the framework block
HasFrameworkBlock(e) == e \in {"rewrite", "selfImprove"}

\* cleanResponse(response, mode) of endpoint e
cleanResponse(e, response, mode) ==
  LET common == CleanCommon(e, response)
      framed == IF mode = "framework-optimization" /\ HasFrameworkBlock(e)
                  THEN FormatFramework(common) ELSE common
      report == IF mode = "report-writing" THEN FormatReport(e, framed) ELSE framed
  IN trim(report)

(***************************************************************************)
(* Inputs.                                                                 *)
(***************************************************************************)
NoMode == "<undefined>"
AllModeKeys == VALID_MODES("rewrite") \cup VALID_MODES("rewriteV2") \cup VALID_MODES("selfImprove")
ModeInputs == AllModeKeys \cup {"bogus-mode", NoMode}

\* the mode the handler works with: rewrite defaults a missing mode
ModeOf(r) ==
  IF r.endpoint \in RewriteEndpoints /\ r.mode = NoMode
    THEN "question-research" ELSE r.mode

SmallLen == 12

\* prompt length at which the no-web user message fills the input budget,
\* up to the rounding of the estimates
EdgeLen(e, mode) ==
  4 * ((maxContextTokens * 8) \div 10) - SystemLength(e, mode)
    - UserMessage(e, mode, 0, FALSE, 0).len

\* the longest prompt of rewrite with which the user message that embeds
\* webLen characters of web data still passes the budget check
WebEdgeLen(e, mode, webLen) ==
  4 * ((maxContextTokens * 8) \div 10 - estimateTokenCount(SystemLength(e, mode))
         - estimateTokenCount(webLen))
    - UserMessage(e, mode, 0, TRUE, webLen).len

StringPrompt(len, words) == [kind |-> "string", len |-> len, words |-> words]

\* userPrompt (rewrite) or currentOutput (self-improve) of the body
PromptInputs(e, mode) ==
  {[kind |-> "missing", len |-> 0, words |-> "short"],
   [kind |-> "nonstring", len |-> 0, words |-> "short"],
   StringPrompt(0, "short")}
  \cup {StringPrompt(SmallLen, w) : w \in {"keyword", "long", "short"}}
  \cup (IF mode \in VALID_MODES(e)
          THEN {StringPrompt(EdgeLen(e, mode) + d, "long") : d \in (0 - LenSpread)..LenSpread}
          ELSE {})

\* userPrompt of the requests to the search branch of rewrite: the short
\* prompts, and the prompts at the edge of the budget when the user message
\* embeds the web data 'T: S' (the last that passes, the first that fails)
AugmentPrompts(e, mode) ==
  {StringPrompt(SmallLen, w) : w \in {"keyword", "long", "short"}}
  \cup (IF mode \in VALID_MODES(e)
          THEN {StringPrompt(WebEdgeLen(e, mode, Len("T: S")), "keyword"),
                StringPrompt(WebEdgeLen(e, mode, Len("T: S")) + 1, "keyword")}
          ELSE {})

GroqKeys == {"", PLACEHOLDER_KEY, "gsk_live"}
SerpKeys == {"", PLACEHOLDER_KEY, "serp_live"}

ResultKinds ==
  {[title |-> "T", snippet |-> "S", link |-> "https://a"],
   [title |-> "", snippet |-> "S", link |-> "https://b"],
   [title |-> "U", snippet |-> "V", link |-> ""]}

ResultLists == UNION {[1..n -> ResultKinds] : n \in 0..MaxResults}

SearchOutcomes ==
  {[throws |-> TRUE, results |-> <<>>]}
  \cup {[throws |-> FALSE, results |-> rs] : rs \in ResultLists}

Statuses == {0, 400, 401, 403, 413, 429, 500, 503}
Codes == {"", "ECONNABORTED"}
Messages == {"boom", "timeout of 30000ms exceeded", "socket timeout"}
Errors == [status : Statuses, code : Codes, message : Messages]

\* one error of each class that callGroqWithRetry tells apart by a test, for
\* runs of the whole pipeline
PipelineErrors ==
  {[status |-> 429, code |-> "", message |-> "boom"],
   [status |-> 413, code |-> "", message |-> "boom"],
   [status |-> 401, code |-> "", message |-> "boom"],
   [status |-> 503, code |-> "", message |-> "boom"],
   [status |-> 0, code |-> "ECONNABORTED", message |-> "timeout of 30000ms exceeded"]}

\* choices[0]?.message?.content of a completion
Completions ==
  {[present |-> FALSE, text |-> ""],
   [present |-> TRUE, text |-> ""],
   [present |-> TRUE, text |-> "Explain quantum computing with sources."],
   [present |-> TRUE, text |-> " "],
   [present |-> TRUE, text |-> "Here is the rewritten prompt: \"Explain it.\""]}

NoCompletion == [present |-> FALSE, text |-> ""]
NoResp == [status |-> 0, error |-> ""]
NoBudget == [checked |-> FALSE, systemTokens |-> 0, userTokens |-> 0,
             webTokens |-> 0, totalInputTokens |-> 0, ok |-> FALSE]
NoUserMsg == [len |-> 0, hasWeb |-> FALSE]
NoOutput == [present |-> FALSE, text |-> "", webAccessUsed |-> FALSE, webSources |-> <<>>]
NonePending == [search |-> 0, completion |-> 0, timer |-> 0]
\* { data: '', sources: [] }, which performWebSearch returns when it has
\* nothing
NoWebResult == [data |-> "", sources |-> <<>>]
\* no Error in flight; status 0 stands for an Error without a status field
NoError == [message |-> "", status |-> 0]

(***************************************************************************)
(* The handlers.                                                           *)
(***************************************************************************)
Respond(status, error) ==
  /\ resp' = [status |-> status, error |-> error]
  /\ pc' = "done"

\* the type test alone, without the emptiness test
PromptRejectedTypeOnly(prompt) == prompt.kind # "string"

\* !userPrompt || typeof userPrompt !== 'string'
PromptRejected(prompt) == prompt.kind # "string" \/ prompt.len = 0

\* a presence test in place of the registry lookup
ModeRejectedIfMissing(r) == ModeOf(r) = NoMode

\* !VALID_MODES.includes(mode), after the default of rewrite
ModeRejected(r) == ModeOf(r) \notin VALID_MODES(r.endpoint)

\* the test for a missing credential alone, without the placeholder test
KeyRejectedEmptyOnly(r) == r.GROQ_API_KEY = ""

\* !GROQ_API_KEY || GROQ_API_KEY === 'your-key-here'
KeyRejected(r) == r.GROQ_API_KEY = "" \/ r.GROQ_API_KEY = PLACEHOLDER_KEY

\* POST, from the parsed body to the credential check
Validate ==
  /\ pc = "received"
  /\ IF req.body \in BadBodies THEN
       Respond(500, BodyErrorMessage(req.endpoint, req.body))
     ELSE IF PromptRejected(req.prompt) THEN
       Respond(400, IF req.endpoint = "selfImprove"
                      THEN "currentOutput is required and must be a string"
                      ELSE "userPrompt is required and must be a string")
     ELSE IF ModeRejected(req) THEN
       Respond(400, InvalidModeMessage(req.endpoint))
     ELSE IF KeyRejected(req) THEN
       Respond(500, ERROR_MESSAGES(req.endpoint).INVALID_API_KEY)
     ELSE /\ pc' = IF req.endpoint = "selfImprove" THEN "budget" ELSE "augment"
          /\ resp' = resp
  /\ UNCHANGED <<req, attempt, calls, waits, errs, searchCalls, webData,
                 webSources, webAccessUsed, userMsg, budget, completion,
                 output, searchLog, pending,
                 sent, suspended, webResult, thrown,
                 page, decrypted>>

\* the search branch with performWebSearch called and not awaited
AugmentNoAwait ==
  /\ pc = "augment"
  /\ IF /\ WantsSearch([req EXCEPT !.mode = ModeOf(req)])
        /\ req.SERPAPI_API_KEY # ""
        /\ extractSearchTerms(req.prompt) # "null"
       THEN /\ searchCalls' = searchCalls + 1
            /\ pending' = [pending EXCEPT !.search = @ + 1]
       ELSE /\ searchCalls' = searchCalls
            /\ pending' = pending
  /\ pc' = "budget"
  /\ UNCHANGED <<req, attempt, calls, waits, errs, webData, webSources,
                 webAccessUsed, userMsg, budget, completion, resp, output, searchLog,
                 sent, suspended, webResult, thrown,
                 page, decrypted>>

\* POST of rewrite: the guard of the search branch and, inside it,
\* performWebSearch up to axios.get; without a key or without search terms
\* performWebSearch returns at once, and POST still awaits it
Augment ==
  /\ pc = "augment"
  /\ IF WantsSearch([req EXCEPT !.mode = ModeOf(req)])
       THEN IF /\ req.SERPAPI_API_KEY # ""
               /\ extractSearchTerms(req.prompt) # "null"
              THEN /\ searchCalls' = searchCalls + 1
                   /\ pending' = [pending EXCEPT !.search = @ + 1]
                   /\ pc' = "searching"
              ELSE /\ searchCalls' = searchCalls
                   /\ pending' = pending
                   /\ pc' = "searched"
       ELSE /\ searchCalls' = searchCalls
            /\ pending' = pending
            /\ pc' = "budget"
  /\ webResult' = NoWebResult
  /\ UNCHANGED <<req, attempt, calls, waits, errs, webData, webSources,
                 webAccessUsed, userMsg, budget, completion, resp, output, searchLog,
                 sent, suspended, thrown, page, decrypted>>

\* axios.get settles with one of the outcomes O, and performWebSearch runs
\* to its return
SearchReturns(O) ==
  /\ pc = "searching"
  /\ \E outcome \in O :
       /\ searchLog' = Append(searchLog, outcome)
       /\ webResult' = SearchResult(outcome)
  /\ pending' = [pending EXCEPT !.search = @ - 1]
  /\ pc' = "searched"
  /\ UNCHANGED <<req, attempt, calls, waits, errs, searchCalls, webData,
                 webSources, webAccessUsed, userMsg, budget, completion, resp,
                 output, sent, suspended, thrown, page, decrypted>>

\* the search result is blended in whenever the search ran
HasWebResultAlways(result) == result.data = result.data

\* webResult.data && webResult.sources.length > 0
HasWebResult(result) == result.data # "" /\ Len(result.sources) > 0

\* POST after await performWebSearch: the rest of the search branch
AfterSearch ==
  /\ pc = "searched"
  /\ IF HasWebResult(webResult)
       THEN /\ webData' = webResult.data
            /\ webSources' = webResult.sources
            /\ webAccessUsed' = TRUE
       ELSE UNCHANGED <<webData, webSources, webAccessUsed>>
  /\ pc' = "budget"
  /\ UNCHANGED <<req, attempt, calls, waits, errs, searchCalls, userMsg,
                 budget, completion, resp, output, searchLog, pending,
                 sent, suspended, webResult, thrown, page, decrypted>>

\* POST: user message, token validation, entry into callGroqWithRetry
BudgetCheck ==
  /\ pc = "budget"
  /\ LET e    == req.endpoint
         mode == ModeOf(req)
         msg  == UserMessage(e, mode, req.prompt.len, webAccessUsed, Len(webData))
         sys  == SystemLength(e, mode)
         est  == TokenEstimates(e, sys, msg.len, Len(webData))
         ok   == validateTokenLimits(e, sys, msg.len, Len(webData))
     IN /\ userMsg' = msg
        /\ IF sys < 0
             THEN \* estimateTokenCount reads .length of undefined
                  /\ budget' = budget
                  /\ Respond(500, "Cannot read properties of undefined (reading 'length')")
             ELSE /\ budget' = [checked |-> TRUE, systemTokens |-> est.systemTokens,
                                userTokens |-> est.userTokens, webTokens |-> est.webTokens,
                                totalInputTokens |-> est.totalInputTokens, ok |-> ok]
                  /\ IF ok
                       THEN /\ pc' = "attempt"
                            /\ resp' = resp
                       ELSE Respond(413, ERROR_MESSAGES(e).PAYLOAD_TOO_LARGE)
  /\ attempt' = 0
  /\ UNCHANGED <<req, calls, waits, errs, searchCalls, webData, webSources,
                 webAccessUsed, completion, output, searchLog, pending,
                 sent, suspended, webResult, thrown,
                 page, decrypted>>

\* the temperature POST passes to callGroqWithRetry, in tenths
Temperature(e, mode) ==
  IF e = "selfImprove" THEN 7
  ELSE IF mode \in {"content-generation", "document-rewriting"} THEN 8 ELSE 4

\* the maxTokens POST passes to callGroqWithRetry
MaxTokens(e, mode) ==
  IF e = "selfImprove" THEN 2000
  ELSE IF mode \in {"content-generation", "document-rewriting"} THEN 3000 ELSE 500

\* max_tokens cut by half on every retry
MaxTokensSentHalved(maxTokens, a) ==
  IF a = 0 THEN maxTokens ELSE IF a = 1 THEN maxTokens \div 2 ELSE maxTokens \div 4

\* Math.min(maxTokens, MODEL_CONFIG.maxCompletionTokens), as sent on attempt a
MaxTokensSent(maxTokens, a) ==
  IF maxTokens < maxCompletionTokens THEN maxTokens ELSE maxCompletionTokens

\* the argument of groq.chat.completions.create on attempt a: the messages
\* (system, then user) by their lengths, temperature and max_tokens
CompletionRequest(r, msg, a) ==
  [messages |-> <<[role |-> "system", length |-> SystemLength(r.endpoint, ModeOf(r))],
                  [role |-> "user", length |-> msg.len]>>,
   temperature |-> Temperature(r.endpoint, ModeOf(r)),
   max_tokens |-> MaxTokensSent(MaxTokens(r.endpoint, ModeOf(r)), a)]

\* callGroqWithRetry: the loop test and groq.chat.completions.create; a loop
\* that runs out ends the function, with throw new Error(GENERIC_ERROR) in
\* rewriteV2 and without a completion in rewrite and self-improve
Attempt ==
  /\ pc = "attempt"
  /\ IF attempt < retries
       THEN /\ calls' = calls + 1
            /\ sent' = Append(sent, CompletionRequest(req, userMsg, attempt))
            /\ pending' = [pending EXCEPT !.completion = @ + 1]
            /\ pc' = "inflight"
            /\ thrown' = thrown
       ELSE /\ calls' = calls
            /\ sent' = sent
            /\ pending' = pending
            /\ IF req.endpoint = "rewriteV2"
                 THEN /\ thrown' = [message |-> ERROR_MESSAGES(req.endpoint).GENERIC_ERROR,
                                    status |-> 0]
                      /\ pc' = "thrown"
                 ELSE /\ thrown' = thrown
                      /\ pc' = "ranout"
  /\ UNCHANGED <<req, attempt, waits, errs, searchCalls, webData, webSources,
                 webAccessUsed, userMsg, budget, completion, resp, output,
                 searchLog, suspended, webResult, page, decrypted>>

\* the provider answers with one of the completions C, and callGroqWithRetry
\* returns it
ProviderSucceeds(C) ==
  /\ pc = "inflight"
  /\ \E c \in C : completion' = c
  /\ pending' = [pending EXCEPT !.completion = @ - 1]
  /\ pc' = "returned"
  /\ UNCHANGED <<req, attempt, calls, waits, errs, searchCalls, webData,
                 webSources, webAccessUsed, userMsg, budget, resp, output,
                 searchLog, sent, suspended, webResult, thrown, page, decrypted>>

\* the catch block of POST:
\* { error: error.message || GENERIC_ERROR }, { status: error.status || 500 }
CatchReply(e, error) ==
  [status |-> IF error.status # 0 THEN error.status ELSE 500,
   error  |-> IF error.message # "" THEN error.message
              ELSE ERROR_MESSAGES(e).GENERIC_ERROR]

\* a missing text body alone, without the test for an empty one
EmptyContentMissingOnly(c) == ~c.present

\* !rewrittenPrompt, of choices[0]?.message?.content
EmptyContent(c) == ~c.present \/ c.text = ""

\* POST after await callGroqWithRetry: it reads the content of the
\* completion, checks it, cleans it and replies; reading choices of the
\* undefined a run-out loop returned throws a TypeError into the catch block
AfterCompletion ==
  /\ pc \in {"returned", "ranout"}
  /\ IF pc = "ranout"
       THEN LET r == CatchReply(req.endpoint,
                       [message |-> "Cannot read properties of undefined (reading 'choices')",
                        status |-> 0])
            IN /\ output' = output
               /\ Respond(r.status, r.error)
       ELSE IF EmptyContent(completion)
              THEN /\ output' = output
                   /\ Respond(500, ERROR_MESSAGES(req.endpoint).GENERIC_ERROR)
              ELSE /\ output' = [present |-> TRUE,
                                 text |-> cleanResponse(req.endpoint, completion.text,
                                                        ModeOf(req)),
                                 webAccessUsed |-> webAccessUsed,
                                 webSources |-> webSources]
                   /\ Respond(200, "")
  /\ UNCHANGED <<req, attempt, calls, waits, errs, searchCalls, webData,
                 webSources, webAccessUsed, userMsg, budget, completion,
                 searchLog, pending, sent, suspended, webResult, thrown,
                 page, decrypted>>

\* what callGroqWithRetry threw arrives in the catch block of POST
CatchError ==
  /\ pc = "thrown"
  /\ LET r == CatchReply(req.endpoint, thrown) IN Respond(r.status, r.error)
  /\ UNCHANGED <<req, attempt, calls, waits, errs, searchCalls, webData,
                 webSources, webAccessUsed, userMsg, budget, completion, output,
                 searchLog, pending, sent, suspended, webResult, thrown,
                 page, decrypted>>

\* the same with the provider's own error thrown on to POST
ProviderFailsRaw(E) ==
  /\ pc = "inflight"
  /\ \E err \in E :
       LET h == HandleError(req.endpoint, err, attempt) IN
       /\ errs' = Append(errs, err)
       /\ IF h.kind = "retry"
            THEN /\ waits' = Append(waits, h.delay)
                 /\ pending' = [pending EXCEPT !.completion = @ - 1, !.timer = @ + 1]
                 /\ pc' = "backoff"
                 /\ thrown' = thrown
            ELSE /\ waits' = waits
                 /\ pending' = [pending EXCEPT !.completion = @ - 1]
                 /\ thrown' = [message |-> err.message, status |-> err.status]
                 /\ pc' = "thrown"
  /\ UNCHANGED <<req, attempt, calls, searchCalls, webData, webSources,
                 webAccessUsed, userMsg, budget, completion, resp, output,
                 searchLog, sent, suspended, webResult, page, decrypted>>

\* the provider throws; the catch block of callGroqWithRetry either starts a
\* backoff timer or throws new Error(message) to POST
ProviderFails(E) ==
  /\ pc = "inflight"
  /\ \E err \in E :
       LET h == HandleError(req.endpoint, err, attempt) IN
       /\ errs' = Append(errs, err)
       /\ IF h.kind = "retry"
            THEN /\ waits' = Append(waits, h.delay)
                 /\ pending' = [pending EXCEPT !.completion = @ - 1, !.timer = @ + 1]
                 /\ pc' = "backoff"
                 /\ thrown' = thrown
            ELSE /\ waits' = waits
                 /\ pending' = [pending EXCEPT !.completion = @ - 1]
                 /\ thrown' = [message |-> h.message, status |-> 0]
                 /\ pc' = "thrown"
  /\ UNCHANGED <<req, attempt, calls, searchCalls, webData, webSources,
                 webAccessUsed, userMsg, budget, completion, resp, output,
                 searchLog, sent, suspended, webResult, page, decrypted>>

\* the backoff timer fires and the promise awaited is never resolved
BackoffFiresUnresolved ==
  /\ pc = "backoff"
  /\ pending.timer > 0
  /\ pending' = [pending EXCEPT !.timer = @ - 1]
  /\ UNCHANGED <<req, pc, attempt, calls, waits, errs, searchCalls, webData,
                 webSources, webAccessUsed, userMsg, budget, completion, resp,
                 output, searchLog, sent, suspended, webResult, thrown,
                 page, decrypted>>

\* the backoff timer fires and the loop goes round
BackoffFires ==
  /\ pc = "backoff"
  /\ attempt' = attempt + 1
  /\ pending' = [pending EXCEPT !.timer = @ - 1]
  /\ pc' = "attempt"
  /\ UNCHANGED <<req, calls, waits, errs, searchCalls, webData, webSources,
                 webAccessUsed, userMsg, budget, completion, resp, output, searchLog,
                 sent, suspended, webResult, thrown,
                 page, decrypted>>

\* the locals of the running invocation of POST and of its callGroqWithRetry
Context ==
  [req |-> req, pc |-> pc, attempt |-> attempt, calls |-> calls, waits |-> waits,
   errs |-> errs, searchCalls |-> searchCalls, webData |-> webData,
   webSources |-> webSources, webAccessUsed |-> webAccessUsed, userMsg |-> userMsg,
   budget |-> budget, completion |-> completion, resp |-> resp, output |-> output,
   searchLog |-> searchLog, pending |-> pending, sent |-> sent,
   webResult |-> webResult, thrown |-> thrown]

\* where an invocation gives way to the event loop: before request.json()
\* settles; at the awaited GET, completion or timer; at await
\* performWebSearch and await callGroqWithRetry once the function awaited has
\* returned or thrown, until POST is taken up again; and once POST returned
AwaitPoints == {"received", "searching", "searched", "inflight", "returned",
                "ranout", "thrown", "backoff", "done"}

\* the invocation with the locals c goes on, its loop counter being a
Resume(c, a) ==
  /\ req' = c.req /\ pc' = c.pc /\ attempt' = a /\ calls' = c.calls
  /\ waits' = c.waits /\ errs' = c.errs /\ searchCalls' = c.searchCalls
  /\ webData' = c.webData /\ webSources' = c.webSources
  /\ webAccessUsed' = c.webAccessUsed /\ userMsg' = c.userMsg
  /\ budget' = c.budget /\ completion' = c.completion /\ resp' = c.resp
  /\ output' = c.output /\ searchLog' = c.searchLog /\ pending' = c.pending
  /\ sent' = c.sent /\ webResult' = c.webResult /\ thrown' = c.thrown

\* the loop counter kept at module level, one for all invocations
SwitchSharedAttempt ==
  /\ suspended # <<>>
  /\ pc \in AwaitPoints
  /\ Resume(Head(suspended), attempt)
  /\ suspended' = Append(Tail(suspended), Context)
  /\ UNCHANGED <<page, decrypted>>

\* the running invocation waits at an await and the event loop goes on with
\* another one, each with its own locals (let attempt of the for loop)
Switch ==
  /\ suspended # <<>>
  /\ pc \in AwaitPoints
  /\ Resume(Head(suspended), Head(suspended).attempt)
  /\ suspended' = Append(Tail(suspended), Context)
  /\ UNCHANGED <<page, decrypted>>

(***************************************************************************)
(* The client page (Home): its state, the two request handlers and the     *)
(* settling of their fetches.                                              *)
(***************************************************************************)
MaxStarted == 3

\* what the user can have typed into the prompt field
PromptTexts == {"", " ", "p"}

\* rewrittenPrompt / improvedOutput of a 200: a cleaned text, possibly empty
ResponseTexts == {"", "out"}

\* the ways in which fetch or response.json() rejects: the request does not
\* get through, or the body of the reply is not JSON; error is the message
\* of what is thrown
Rejections ==
  {[ok |-> FALSE, rejects |-> TRUE, text |-> "", webSources |-> <<>>, error |-> e] :
     e \in {"Failed to fetch", "Unexpected token '<', \"<html>\" is not valid JSON"}}

\* what a fetch settles with: a 200 with its data, a reply that is not ok
\* with or without an error text, or a rejection
RewriteResponses ==
  {[ok |-> TRUE, rejects |-> FALSE, text |-> t, webSources |-> ws, error |-> ""] :
       t \in ResponseTexts, ws \in {<<>>, <<"L">>}}
    \cup {[ok |-> FALSE, rejects |-> FALSE, text |-> "", webSources |-> <<>>, error |-> e] :
            e \in {"", "An unexpected error occurred. Please try again."}}
    \cup Rejections

ImproveResponses ==
  {[ok |-> TRUE, rejects |-> FALSE, text |-> t, webSources |-> <<>>, error |-> ""] :
       t \in ResponseTexts}
    \cup {[ok |-> FALSE, rejects |-> FALSE, text |-> "", webSources |-> <<>>, error |-> e] :
            e \in {"", "An unexpected error occurred. Please try again."}}
    \cup Rejections

\* useState initial values of Home; fetches is the log of the requests the
\* page has started and shownFrom the request whose reply is on display
PageInit ==
  [userPrompt |-> "", rewrittenPrompt |-> "", isLoading |-> FALSE,
   error |-> "", isImproving |-> FALSE, webSources |-> <<>>,
   animationTrigger |-> 0, fetches |-> <<>>, shownFrom |-> 0]

\* onChange of the prompt field
setUserPrompt ==
  /\ \E t \in PromptTexts :
       /\ t # page.userPrompt
       /\ page' = [page EXCEPT !.userPrompt = t]
  /\ UNCHANGED <<server, decrypted>>

\* disabled={isLoading || !userPrompt.trim()}
RewriteDisabled == page.isLoading \/ trim(page.userPrompt) = ""

\* the self-improve button is rendered for a truthy rewrittenPrompt and
\* disabled={isImproving}
ImproveDisabled == page.rewrittenPrompt = "" \/ page.isImproving

Fetch(kind, body) == [kind |-> kind, state |-> "pending", body |-> body]

\* a click on the rewrite button: handleRewrite up to its await
handleRewrite ==
  /\ ~RewriteDisabled
  /\ Len(page.fetches) < MaxStarted
  /\ IF trim(page.userPrompt) = ""
       THEN page' = [page EXCEPT !.error = "Please enter a prompt to rewrite"]
       ELSE page' = [page EXCEPT !.isLoading = TRUE,
                                 !.error = "",
                                 !.rewrittenPrompt = "",
                                 !.webSources = <<>>,
                                 !.shownFrom = 0,
                                 !.fetches = Append(@, Fetch("rewrite", trim(page.userPrompt)))]
  /\ UNCHANGED <<server, decrypted>>

\* a click on the self-improve button: handleSelfImprove up to its await
handleSelfImprove ==
  /\ ~ImproveDisabled
  /\ Len(page.fetches) < MaxStarted
  /\ IF trim(page.rewrittenPrompt) = ""
       THEN page' = [page EXCEPT !.error = "No rewritten prompt available to improve"]
       ELSE page' = [page EXCEPT !.isImproving = TRUE,
                                 !.error = "",
                                 !.fetches = Append(@, Fetch("improve", trim(page.rewrittenPrompt)))]
  /\ UNCHANGED <<server, decrypted>>

\* err.message in the catch: the message of the rejection, or of
\* new Error(data.error || fallback)
ErrorText(r, fallback) ==
  IF r.rejects THEN r.error
  ELSE IF r.error # "" THEN r.error ELSE fallback

\* handleRewrite from its await on: the reply of the rewrite fetch arrives
RewriteSettles ==
  /\ \E i \in DOMAIN page.fetches, r \in RewriteResponses :
       /\ page.fetches[i].kind = "rewrite"
       /\ page.fetches[i].state = "pending"
       /\ page' =
            IF r.ok
              THEN [page EXCEPT !.rewrittenPrompt = r.text,
                                !.animationTrigger = @ + 1,
                                !.webSources = IF Len(r.webSources) > 0
                                                 THEN r.webSources ELSE @,
                                !.isLoading = FALSE,
                                !.shownFrom = i,
                                !.fetches[i].state = "ok"]
              ELSE [page EXCEPT !.error = ErrorText(r, "Failed to rewrite prompt"),
                                !.isLoading = FALSE,
                                !.fetches[i].state = "failed"]
  /\ UNCHANGED <<server, decrypted>>

\* handleSelfImprove from its await on: the reply of the self-improve fetch
\* arrives
ImproveSettles ==
  /\ \E i \in DOMAIN page.fetches, r \in ImproveResponses :
       /\ page.fetches[i].kind = "improve"
       /\ page.fetches[i].state = "pending"
       /\ page' =
            IF r.ok
              THEN [page EXCEPT !.rewrittenPrompt = r.text,
                                !.animationTrigger = @ + 1,
                                !.isImproving = FALSE,
                                !.shownFrom = i,
                                !.fetches[i].state = "ok"]
              ELSE [page EXCEPT !.error = ErrorText(r, "Failed to improve prompt"),
                                !.isImproving = FALSE,
                                !.fetches[i].state = "failed"]
  /\ UNCHANGED <<server, decrypted>>

(***************************************************************************)
(* The DecryptedText component: its effect, the interval callback and what *)
(* it renders.                                                             *)
(***************************************************************************)
MaxText == 3

chars == "!@#$%^&*()_+-=[]{}|;:,.<>?"

\* the values of Math.floor(Math.random() * chars.length) that are drawn:
\* the first and the last character of chars and the one a text can hold
Draws == {0, 22, Len(chars) - 1}

RECURSIVE TextsOfLength(_)
TextsOfLength(n) ==
  IF n = 0 THEN {""}
  ELSE {t \o c : t \in TextsOfLength(n - 1), c \in {"a", "."}}

\* the text prop
DecryptTexts == UNION {TextsOfLength(n) : n \in 0..MaxText}

\* no instance of the component
Unmounted ==
  [text |-> "", displayText |-> "", isDecrypting |-> FALSE,
   currentIndex |-> 0, interval |-> "none", effect |-> "none"]

\* the first render of an instance: useState initial values, the effect due
Mounted(text) ==
  [text |-> text, displayText |-> "", isDecrypting |-> FALSE,
   currentIndex |-> 0, interval |-> "none", effect |-> "due"]

\* the page renders the component, at first or under a new key: the old
\* instance is unmounted (its cleanup clears the interval) and a new one is
\* mounted
Mount ==
  /\ decrypted.effect # "due"
  /\ \E t \in DecryptTexts : decrypted' = Mounted(t)
  /\ UNCHANGED <<server, page>>

\* the page renders the placeholder in the place of the component
\* (handleRewrite sets rewrittenPrompt to ''): the instance is unmounted,
\* the cleanup of its effect clears the interval, and no callback of it
\* fires again
Unmount ==
  /\ decrypted # Unmounted
  /\ decrypted.effect # "due"
  /\ decrypted' = Unmounted
  /\ UNCHANGED <<server, page>>

\* the body of useEffect
useEffect ==
  /\ decrypted.effect = "due"
  /\ IF decrypted.text = ""
       THEN decrypted' = [decrypted EXCEPT !.effect = "run"]
       ELSE decrypted' = [decrypted EXCEPT !.isDecrypting = TRUE,
                                           !.displayText = "",
                                           !.currentIndex = 0,
                                           !.interval = "set",
                                           !.effect = "run"]
  /\ UNCHANGED <<server, page>>

\* the places of one frame that get a random character
ScrambledPlaces(finalText, currentIndex) ==
  {i \in 0..(Len(finalText) - 1) : i >= currentIndex /\ i < currentIndex + 3}

\* the loop that builds one frame, from place i on; rnd[i] is
\* Math.floor(Math.random() * chars.length) of place i
RECURSIVE scrambled(_, _, _, _)
scrambled(finalText, currentIndex, rnd, i) ==
  IF i >= Len(finalText) THEN ""
  ELSE (IF i < currentIndex THEN SubSeq(finalText, i + 1, i + 1)
        ELSE IF i < currentIndex + 3 THEN SubSeq(chars, rnd[i] + 1, rnd[i] + 1)
        ELSE " ")
         \o scrambled(finalText, currentIndex, rnd, i + 1)

\* the callback of setInterval
Tick ==
  /\ decrypted.interval = "set"
  /\ IF decrypted.currentIndex >= Len(decrypted.text)
       THEN decrypted' = [decrypted EXCEPT !.isDecrypting = FALSE,
                                           !.interval = "cleared"]
       ELSE \E rnd \in [ScrambledPlaces(decrypted.text, decrypted.currentIndex)
                          -> Draws] :
              decrypted' =
                [decrypted EXCEPT
                   !.displayText = scrambled(decrypted.text, decrypted.currentIndex, rnd, 0),
                   !.currentIndex = @ + 1]
  /\ UNCHANGED <<server, page>>

RECURSIVE TrimEach(_)
TrimEach(lines) ==
  IF lines = <<>> THEN <<>> ELSE <<trim(Head(lines))>> \o TrimEach(Tail(lines))

\* formatText, as the text of the blocks it renders: one block per line, the
\* lines trimmed in the framework and in the report layout
formatText(text) ==
  IF \/ includes(text, "Role:") /\ includes(text, "Context:") /\ includes(text, "Task:")
     \/ includes(text, "Executive Summary")
     \/ includes(text, "Methodology")
     \/ includes(text, "Analysis")
    THEN JoinLines(TrimEach(SplitLines(text)))
    ELSE JoinLines(SplitLines(text))

\* what the component shows
Displayed ==
  IF decrypted.isDecrypting THEN decrypted.displayText
  ELSE formatText(decrypted.displayText)

(***************************************************************************)
(* Specifications.                                                         *)
(***************************************************************************)
Request(e, b, m, p, w, gk, sk) ==
  [endpoint |-> e, body |-> b, mode |-> m, prompt |-> p,
   enableWebAccess |-> w, GROQ_API_KEY |-> gk, SERPAPI_API_KEY |-> sk]

\* a request arrives: any body, any environment
Init ==
  /\ \E e \in Endpoints, m \in ModeInputs, gk \in GroqKeys, sk \in SerpKeys :
       \/ \E p \in PromptInputs(e, m),
             w \in (IF e = "selfImprove" THEN {FALSE} ELSE BOOLEAN) :
            req = Request(e, "object", m, p, w, gk, sk)
       \/ /\ m = NoMode
          /\ \E b \in BadBodies :
               req = Request(e, b, m, [kind |-> "missing", len |-> 0, words |-> "short"],
                             FALSE, gk, sk)
  /\ pc = "received"
  /\ attempt = 0
  /\ calls = 0
  /\ waits = <<>>
  /\ errs = <<>>
  /\ searchCalls = 0
  /\ webData = ""
  /\ webSources = <<>>
  /\ webAccessUsed = FALSE
  /\ userMsg = NoUserMsg
  /\ budget = NoBudget
  /\ completion = NoCompletion
  /\ resp = NoResp
  /\ output = NoOutput
  /\ searchLog = <<>>
  /\ pending = NonePending
  /\ sent = <<>>
  /\ webResult = NoWebResult
  /\ thrown = NoError
  /\ suspended = <<>>
  /\ page = PageInit
  /\ decrypted = Unmounted

Next ==
  \/ Validate
  \/ Augment
  \/ SearchReturns(SearchOutcomes)
  \/ AfterSearch
  \/ BudgetCheck
  \/ Attempt
  \/ ProviderSucceeds(Completions)
  \/ ProviderFails(PipelineErrors)
  \/ BackoffFires
  \/ AfterCompletion
  \/ CatchError

Spec == Init /\ [][Next]_vars

\* The same pipeline when every outbound call returns or throws, every
\* backoff timer fires, and the handler runs on whenever it can; the modes
\* are a missing one, an unknown one, and one of each kind the handler tells
\* apart (plain, always augmented, framework).
LiveModes ==
  {NoMode, "bogus-mode", "question-research", "document-rewriting",
   "framework-optimization"}

InitLive == Init /\ req.mode \in LiveModes

\* the steps of Next other than the one POST makes after await
\* callGroqWithRetry
BeforeReply == pc \notin {"returned", "ranout"} /\ Next

\* weak fairness of AfterCompletion, with its enabling condition written
\* out: the action is enabled exactly in the states of its guard
ReplyFairness ==
  []<>(pc \notin {"returned", "ranout"}) \/ []<><<AfterCompletion>>_vars

SpecLive == InitLive /\ [][Next]_vars /\ WF_vars(BeforeReply) /\ ReplyFairness

\* Several requests in flight at once on the one event loop: a few kinds of
\* request, of provider answer and of search outcome, in every interleaving.
MaxConcurrent == 2

ConcurrentRequests ==
  {Request("rewrite", "object", "question-research", StringPrompt(SmallLen, "keyword"),
           TRUE, "gsk_live", "serp_live"),
   Request("selfImprove", "object", "question-research", StringPrompt(SmallLen, "long"),
           FALSE, "gsk_live", "")}

\* one error that is retried and one that ends the call
ConcurrentErrors ==
  {[status |-> 429, code |-> "", message |-> "boom"],
   [status |-> 401, code |-> "", message |-> "boom"]}

ConcurrentCompletions == {[present |-> TRUE, text |-> "Explain quantum computing with sources."]}

ConcurrentSearchOutcomes ==
  {[throws |-> TRUE, results |-> <<>>],
   [throws |-> FALSE, results |-> <<[title |-> "T", snippet |-> "S", link |-> "https://a"]>>]}

\* the locals of an invocation that has just been entered
NewContext(r) ==
  [req |-> r, pc |-> "received", attempt |-> 0, calls |-> 0, waits |-> <<>>,
   errs |-> <<>>, searchCalls |-> 0, webData |-> "", webSources |-> <<>>,
   webAccessUsed |-> FALSE, userMsg |-> NoUserMsg, budget |-> NoBudget,
   completion |-> NoCompletion, resp |-> NoResp, output |-> NoOutput,
   searchLog |-> <<>>, pending |-> NonePending, sent |-> <<>>,
   webResult |-> NoWebResult, thrown |-> NoError]

InitConcurrent ==
  /\ req \in ConcurrentRequests
  /\ pc = "received"
  /\ attempt = 0
  /\ calls = 0
  /\ waits = <<>>
  /\ errs = <<>>
  /\ searchCalls = 0
  /\ webData = ""
  /\ webSources = <<>>
  /\ webAccessUsed = FALSE
  /\ userMsg = NoUserMsg
  /\ budget = NoBudget
  /\ completion = NoCompletion
  /\ resp = NoResp
  /\ output = NoOutput
  /\ searchLog = <<>>
  /\ pending = NonePending
  /\ sent = <<>>
  /\ webResult = NoWebResult
  /\ thrown = NoError
  /\ \E rs \in [1..(MaxConcurrent - 1) -> ConcurrentRequests] :
       suspended = [i \in 1..(MaxConcurrent - 1) |-> NewContext(rs[i])]
  /\ page = PageInit
  /\ decrypted = Unmounted

NextConcurrent ==
  \/ Validate
  \/ Augment
  \/ SearchReturns(ConcurrentSearchOutcomes)
  \/ AfterSearch
  \/ BudgetCheck
  \/ Attempt
  \/ ProviderSucceeds(ConcurrentCompletions)
  \/ ProviderFails(ConcurrentErrors)
  \/ BackoffFires
  \/ AfterCompletion
  \/ CatchError
  \/ Switch

SpecConcurrent == InitConcurrent /\ [][NextConcurrent]_vars

\* One call of callGroqWithRetry and the reply that POST makes of it, for
\* every error the provider can throw: the state in which POST enters the
\* invoker for a plain valid request.
InitInvoker ==
  /\ \E e \in Endpoints :
       /\ req = Request(e, "object", "question-research", StringPrompt(SmallLen, "long"),
                        FALSE, "gsk_live", "")
       /\ userMsg = UserMessage(e, "question-research", SmallLen, FALSE, 0)
       /\ LET sys == SystemLength(e, "question-research")
              est == TokenEstimates(e, sys, userMsg.len, 0)
          IN budget = [checked |-> TRUE, systemTokens |-> est.systemTokens,
                       userTokens |-> est.userTokens, webTokens |-> est.webTokens,
                       totalInputTokens |-> est.totalInputTokens,
                       ok |-> validateTokenLimits(e, sys, userMsg.len, 0)]
  /\ pc = "attempt"
  /\ attempt = 0
  /\ calls = 0
  /\ waits = <<>>
  /\ errs = <<>>
  /\ searchCalls = 0
  /\ webData = ""
  /\ webSources = <<>>
  /\ webAccessUsed = FALSE
  /\ completion = NoCompletion
  /\ resp = NoResp
  /\ output = NoOutput
  /\ searchLog = <<>>
  /\ pending = NonePending
  /\ sent = <<>>
  /\ webResult = NoWebResult
  /\ thrown = NoError
  /\ suspended = <<>>
  /\ page = PageInit
  /\ decrypted = Unmounted

NextInvoker ==
  \/ Attempt
  \/ ProviderSucceeds(Completions)
  \/ ProviderFails(Errors)
  \/ BackoffFires
  \/ AfterCompletion
  \/ CatchError

SpecInvoker == InitInvoker /\ [][NextInvoker]_vars

\* The reply handling of POST alone, for raw replies made of a few lines:
\* the state in which the completion call of a plain valid request is in
\* flight, for each endpoint and for the modes cleanResponse tells apart.
MaxLines == 3

ReplyLines ==
  {"Role: A", "Context: B", "Task: C", "see Task: D", "Role: Z", "- x", "note", ""}

RECURSIVE LinesUpTo(_)
LinesUpTo(n) ==
  IF n = 0 THEN {<<>>}
  ELSE LinesUpTo(n - 1)
         \cup {Append(ls, l) : ls \in {x \in LinesUpTo(n - 1) : Len(x) = n - 1},
                               l \in ReplyLines}

\* replies that wrap the text in a prefix, a suffix, quotes or white space
WrappedReplies ==
  {" ", "\"\"", "\"", "'", " ' ", "'a' or 'b'", "\"a'",
   "Here is the rewritten prompt:", "Here is the improved version:",
   "Here is the rewritten prompt: \"Role: A\nTask: C\" I hope this helps!",
   "Role: A\nTask: C I hope this helps I hope this helps",
   "\"Role: A\" Let me know if you need any adjustments.",
   "Sure. Executive Summary: s. - one! Findings f"}

\* the texts the prefix patterns of endpoint e match, without the colon
PrefixHeads(e) ==
  UNION {{prefixPatterns(e)[i][k] : k \in DOMAIN prefixPatterns(e)[i]} :
           i \in DOMAIN prefixPatterns(e)}

\* texts a reply carries after its prefix
PrefixedBodies ==
  {"", " Explain quantum computing with sources.", "  Explain it. \n",
   " Rewritten version: X", " Improved version: X", " is: X", ": Y",
   " say \"hi\" to 'them'", " \"Explain it.\"", " Explain it. I hope this helps!"}

\* replies that open with a prefix of one of the catalogues
PrefixedReplies ==
  {h \o c \o b : h \in UNION {PrefixHeads(e) : e \in Endpoints}
                             \cup {"HERE IS THE REWRITTEN PROMPT"},
                 c \in {"", ":"}, b \in PrefixedBodies}

\* replies that carry the bullet U+2022: after a sentence end, with and
\* without white space around it, next to a '-' match, and at the start of
\* a line of a section
BulletReplies ==
  {"Done. " \o Bullet \o " item",
   "a." \o Bullet \o "b",
   "a. " \o Bullet \o " b. - c",
   "a " \o Bullet \o " b",
   "Role: A\n" \o Bullet \o " x\nTask: C"}

NormalizerReplies ==
  {JoinLines(ls) : ls \in LinesUpTo(MaxLines) \ {<<>>, <<"">>}}
    \cup WrappedReplies \cup PrefixedReplies \cup BulletReplies

NormalizerModes == {"framework-optimization", "report-writing", "question-research"}

InitNormalizer ==
  /\ \E e \in Endpoints, m \in NormalizerModes :
       /\ req = Request(e, "object", m, StringPrompt(SmallLen, "long"),
                        FALSE, "gsk_live", "")
       /\ userMsg = UserMessage(e, m, SmallLen, FALSE, 0)
       /\ LET sys == SystemLength(e, m)
              est == TokenEstimates(e, sys, userMsg.len, 0)
          IN budget = [checked |-> TRUE, systemTokens |-> est.systemTokens,
                       userTokens |-> est.userTokens, webTokens |-> est.webTokens,
                       totalInputTokens |-> est.totalInputTokens,
                       ok |-> validateTokenLimits(e, sys, userMsg.len, 0)]
  /\ pc = "inflight"
  /\ attempt = 0
  /\ calls = 1
  /\ waits = <<>>
  /\ errs = <<>>
  /\ searchCalls = 0
  /\ webData = ""
  /\ webSources = <<>>
  /\ webAccessUsed = FALSE
  /\ completion = NoCompletion
  /\ resp = NoResp
  /\ output = NoOutput
  /\ searchLog = <<>>
  /\ pending = [search |-> 0, completion |-> 1, timer |-> 0]
  /\ sent = <<CompletionRequest(req, userMsg, 0)>>
  /\ webResult = NoWebResult
  /\ thrown = NoError
  /\ suspended = <<>>
  /\ page = PageInit
  /\ decrypted = Unmounted

\* the completions that carry the raw replies
NormalizerCompletions == {[present |-> TRUE, text |-> t] : t \in NormalizerReplies}

NextNormalizer ==
  \/ ProviderSucceeds(NormalizerCompletions)
  \/ AfterCompletion

SpecNormalizer == InitNormalizer /\ [][NextNormalizer]_vars

\* The pipeline of rewrite on the requests to its search branch, in the
\* modes of LiveModes
InitAugment ==
  /\ \E e \in RewriteEndpoints, m \in LiveModes, gk \in GroqKeys, sk \in SerpKeys :
       \E p \in AugmentPrompts(e, m), w \in BOOLEAN :
          req = Request(e, "object", m, p, w, gk, sk)
  /\ pc = "received"
  /\ attempt = 0
  /\ calls = 0
  /\ waits = <<>>
  /\ errs = <<>>
  /\ searchCalls = 0
  /\ webData = ""
  /\ webSources = <<>>
  /\ webAccessUsed = FALSE
  /\ userMsg = NoUserMsg
  /\ budget = NoBudget
  /\ completion = NoCompletion
  /\ resp = NoResp
  /\ output = NoOutput
  /\ searchLog = <<>>
  /\ pending = NonePending
  /\ sent = <<>>
  /\ webResult = NoWebResult
  /\ thrown = NoError
  /\ suspended = <<>>
  /\ page = PageInit
  /\ decrypted = Unmounted

SpecAugment == InitAugment /\ [][Next]_vars

\* the server side at rest, for the specifications of the client
ServerIdle ==
  /\ req = Request("rewrite", "object", "question-research",
                   StringPrompt(SmallLen, "long"), FALSE, "gsk_live", "")
  /\ pc = "received"
  /\ attempt = 0
  /\ calls = 0
  /\ waits = <<>>
  /\ errs = <<>>
  /\ searchCalls = 0
  /\ webData = ""
  /\ webSources = <<>>
  /\ webAccessUsed = FALSE
  /\ userMsg = NoUserMsg
  /\ budget = NoBudget
  /\ completion = NoCompletion
  /\ resp = NoResp
  /\ output = NoOutput
  /\ searchLog = <<>>
  /\ pending = NonePending
  /\ sent = <<>>
  /\ webResult = NoWebResult
  /\ thrown = NoError
  /\ suspended = <<>>

\* the client page alone: the user types and clicks, the fetches settle in
\* any order
InitClient ==
  /\ ServerIdle
  /\ page = PageInit
  /\ decrypted = Unmounted

NextClient ==
  \/ setUserPrompt
  \/ handleRewrite
  \/ handleSelfImprove
  \/ RewriteSettles
  \/ ImproveSettles

SpecClient == InitClient /\ [][NextClient]_vars

\* the DecryptedText component alone: mounted with any text and unmounted,
\* again and again
InitDecrypt ==
  /\ ServerIdle
  /\ page = PageInit
  /\ decrypted = Unmounted

NextDecrypt ==
  \/ useEffect
  \/ Tick
  \/ Mount
  \/ Unmount

SpecDecrypt == InitDecrypt /\ [][NextDecrypt]_vars

TypeOK ==
  /\ pc \in {"received", "augment", "searching", "searched", "budget",
             "attempt", "inflight", "returned", "ranout", "thrown", "backoff",
             "done"}
  /\ attempt \in 0..retries
  /\ calls \in 0..(retries + 1)
  /\ resp.status \in {0, 200, 400, 413, 500}


(***************************************************************************)
(* Properties of the completion invoker (SpecInvoker).                     *)
(***************************************************************************)
\* every attempt made so far has failed
AllFailed == calls > 0 /\ Len(errs) = calls /\ ~completion.present

\* the invoker has thrown an Error with the message msg, and POST, once it
\* is taken up again, replies with it
Failed(msg) ==
  \/ pc = "thrown" /\ thrown = [message |-> msg, status |-> 0]
  \/ pc = "done" /\ resp = [status |-> 500, error |-> msg]

\* C1: one call of the completion invoker calls the provider at most 3
\* times, whatever the provider answers.
C1_AtMostThreeCalls == calls <= 3

C1_Witness == calls = 3 /\ pc = "done" /\ Len(errs) = 3

\* C2: a provider that answers every attempt with status 429 gets exactly 3
\* attempts, with waits of 2 s and 4 s, and the call then fails with the
\* high-demand message.
C2_RateLimitExhaustion ==
  (AllFailed /\ \A i \in 1..Len(errs) : errs[i].status = 429) =>
     /\ pc = "backoff" => waits = SubSeq(<<2000, 4000>>, 1, calls)
     /\ pc = "done" =>
          /\ calls = 3
          /\ waits = <<2000, 4000>>
          /\ resp.error = "Service is experiencing high demand. Please wait a moment and try again."

C2_Witness ==
  /\ pc = "done" /\ calls = 3 /\ Len(errs) = 3
  /\ \A i \in 1..3 : errs[i].status = 429
  /\ waits = <<2000, 4000>>

\* C3: an error with status 413 ends the call at once, at any attempt index:
\* it is the last error, no attempt and no backoff follows it, and the reply
\* carries the payload-too-large message.
C3_PayloadTerminal ==
  \A i \in 1..Len(errs) :
    errs[i].status = 413 =>
      /\ i = Len(errs)
      /\ calls = i
      /\ Len(waits) = i - 1
      /\ Failed(ERROR_MESSAGES(req.endpoint).PAYLOAD_TOO_LARGE)

C3_Witness ==
  /\ Len(errs) = 2 /\ errs[2].status = 413 /\ errs[2].code = "ECONNABORTED"
  /\ pc = "done" /\ calls = 2 /\ waits = <<1000>>

\* C4 as stated: an error with status 401 or 403 ends the call with the
\* configuration error, whatever its code and message.
C4_Original ==
  \A i \in 1..Len(errs) :
    errs[i].status \in {401, 403} =>
      /\ i = Len(errs)
      /\ calls = i
      /\ Failed("Service configuration error. Please contact support.")

\* C4 (amended): an error with status 401 or 403 whose code is not
\* ECONNABORTED and whose message does not contain 'timeout' ends the call
\* with the configuration error; no attempt and no backoff follows it.
C4_UnauthorizedTerminal ==
  \A i \in 1..Len(errs) :
    (/\ errs[i].status \in {401, 403}
     /\ errs[i].code # "ECONNABORTED"
     /\ ~includes(errs[i].message, "timeout")) =>
      /\ i = Len(errs)
      /\ calls = i
      /\ Len(waits) = i - 1
      /\ Failed("Service configuration error. Please contact support.")

C4_Witness ==
  /\ Len(errs) = 2 /\ errs[2] = [status |-> 403, code |-> "", message |-> "boom"]
  /\ pc = "done" /\ calls = 2
  /\ resp.error = "Service configuration error. Please contact support."

\* the three retryable classes that wait the plain schedule
TimeoutClass(err) ==
  /\ err.status \notin {429, 413}
  /\ (err.code = "ECONNABORTED" \/ includes(err.message, "timeout"))

ServerClass(err) ==
  /\ err.status \in {500, 503}
  /\ err.code = "" /\ err.message = "boom"

UnclassifiedClass(err) ==
  /\ err.status \in {0, 400}
  /\ err.code = "" /\ err.message = "boom"

ExhaustsWith(InClass(_), msg) ==
  (AllFailed /\ \A i \in 1..Len(errs) : InClass(errs[i])) =>
     /\ pc = "backoff" => waits = SubSeq(<<1000, 2000>>, 1, calls)
     /\ pc = "done" =>
          /\ calls = 3
          /\ waits = <<1000, 2000>>
          /\ resp.error = msg

\* C5: a provider that fails every attempt with a connection/timeout error,
\* or every attempt with a 5xx error, or every attempt with an unclassified
\* error, gets exactly 3 attempts with waits of 1 s and 2 s, and the call
\* then fails with the message of that class.
C5_PlainScheduleExhaustion ==
  /\ ExhaustsWith(TimeoutClass, "Request timed out. Please check your connection and try again.")
  /\ ExhaustsWith(ServerClass, "Service temporarily unavailable. Please try again in a few minutes.")
  /\ ExhaustsWith(UnclassifiedClass, "An unexpected error occurred. Please try again.")

C5_Witness ==
  /\ pc = "done" /\ calls = 3 /\ Len(errs) = 3
  /\ \A i \in 1..3 : ServerClass(errs[i])
  /\ waits = <<1000, 2000>>

\* the classes in the documented priority order, and what each matches
ClassOrder == <<"rate-limited", "payload-too-large", "timeout",
                "unauthorized", "server", "other">>

Matches(class, err) ==
  CASE class = "rate-limited"      -> err.status = 429
    [] class = "payload-too-large" -> err.status = 413
    [] class = "timeout"           -> err.code = "ECONNABORTED"
                                      \/ includes(err.message, "timeout")
    [] class = "unauthorized"      -> err.status \in {401, 403}
    [] class = "server"            -> err.status >= 500
    [] class = "other"             -> TRUE

FirstClass(err) ==
  ClassOrder[CHOOSE k \in DOMAIN ClassOrder :
               /\ Matches(ClassOrder[k], err)
               /\ \A j \in 1..(k - 1) : ~Matches(ClassOrder[j], err)]

ClassRetryable(class) == class \in {"rate-limited", "timeout", "server", "other"}

ClassMessage(class) ==
  CASE class = "rate-limited"      -> "Service is experiencing high demand. Please wait a moment and try again."
    [] class = "payload-too-large" -> ERROR_MESSAGES(req.endpoint).PAYLOAD_TOO_LARGE
    [] class = "timeout"           -> "Request timed out. Please check your connection and try again."
    [] class = "unauthorized"      -> "Service configuration error. Please contact support."
    [] class = "server"            -> "Service temporarily unavailable. Please try again in a few minutes."
    [] class = "other"             -> "An unexpected error occurred. Please try again."

ClassWait(class, i) ==
  IF class = "rate-limited" THEN 2 * <<1000, 2000, 4000>>[i] ELSE <<1000, 2000, 4000>>[i]

\* C6: each error is handled as the first class, in the order rate-limited,
\* payload-too-large, timeout, unauthorized, server, other, that it matches:
\* retried with that class's wait when the class is retryable and an attempt
\* is left, and otherwise surfaced at once with that class's message.
C6_PriorityOrder ==
  \A i \in 1..Len(errs) :
    LET class == FirstClass(errs[i]) IN
    IF ClassRetryable(class) /\ i < 3
      THEN Len(waits) >= i /\ waits[i] = ClassWait(class, i)
      ELSE /\ i = Len(errs)
           /\ Len(waits) = i - 1
           /\ Failed(ClassMessage(class))

\* several classes match the errors handled: 401 with a timeout message is
\* retried as a timeout, 500 with ECONNABORTED surfaces as a timeout
C6_Witness ==
  /\ Len(errs) = 3 /\ pc = "done"
  /\ errs[1] = [status |-> 401, code |-> "", message |-> "socket timeout"]
  /\ errs[2] = [status |-> 429, code |-> "ECONNABORTED", message |-> "boom"]
  /\ errs[3] = [status |-> 500, code |-> "ECONNABORTED", message |-> "boom"]
  /\ waits = <<1000, 4000>>
  /\ resp.error = "Request timed out. Please check your connection and try again."

(***************************************************************************)
(* Properties of the whole request (Spec).                                 *)
(***************************************************************************)
\* the least n with 4n >= len, i.e. n = ceil(len / 4)
IsCeilOfQuarter(n, len) == 4 * n >= len /\ 4 * (n - 1) < len

\* C7: a request whose estimated input tokens exceed 80% of the context
\* window (104857.6) fails the budget check, ends with status 413 and the
\* payload-too-large message, and never reaches the provider.
C7_OverBudgetNeverCalls ==
  (budget.checked /\ budget.totalInputTokens > 104857) =>
     /\ ~budget.ok
     /\ pc = "done"
     /\ resp = [status |-> 413, error |-> ERROR_MESSAGES(req.endpoint).PAYLOAD_TOO_LARGE]
     /\ calls = 0

C7_Witness ==
  /\ budget.checked /\ budget.totalInputTokens = 104858
  /\ pc = "done" /\ resp.status = 413 /\ calls = 0

\* C8: the budget check passes exactly when ceil(system/4) + ceil(user/4) +
\* ceil(web/4) is at most 80% of 131072, and a request within the threshold
\* is not answered 413.
C8_ValidateIffWithinBudget ==
  budget.checked =>
     /\ IsCeilOfQuarter(budget.systemTokens, SystemLength(req.endpoint, ModeOf(req)))
     /\ IsCeilOfQuarter(budget.userTokens, userMsg.len)
     /\ IsCeilOfQuarter(budget.webTokens, Len(webData))
     /\ budget.totalInputTokens
          = budget.systemTokens + budget.userTokens + budget.webTokens
     /\ budget.ok <=> (budget.totalInputTokens <= 104857)
     /\ budget.totalInputTokens <= 104857 => resp.status # 413
     /\ budget.totalInputTokens > 104857 => resp.status = 413

C8_Witness ==
  /\ budget.checked /\ budget.ok /\ budget.totalInputTokens = 104857
  /\ userMsg.len % 4 # 0
  /\ pc = "done" /\ resp.status = 200

\* C9: a parsed request whose mode (after the default that rewrite gives a
\* missing mode) is not a key of the endpoint's registry is answered 400,
\* and neither the search transport nor the provider is called.
C9_UnknownModeRejected ==
  (req.body = "object" /\ ModeOf(req) \notin DOMAIN SYSTEM_INSTRUCTIONS(req.endpoint)) =>
     /\ pc \in {"received", "done"}
     /\ pc = "done" => resp.status = 400
     /\ searchCalls = 0
     /\ calls = 0

C9_Witness ==
  /\ req.endpoint = "rewrite" /\ req.mode = "ultimate-mode"
  /\ req.prompt.kind = "string" /\ req.prompt.len > 0
  /\ req.enableWebAccess /\ req.GROQ_API_KEY = "gsk_live" /\ req.SERPAPI_API_KEY = "serp_live"
  /\ pc = "done" /\ resp.status = 400

\* C10: an empty, missing or non-string userPrompt (rewrite) or
\* currentOutput (self-improve) is answered 400 whatever the credential is,
\* so ahead of the credential check, and nothing is sent out.
C10_EmptyInputRejected ==
  (/\ req.body = "object"
   /\ (req.prompt.kind \in {"missing", "nonstring"}
       \/ (req.prompt.kind = "string" /\ req.prompt.len = 0))) =>
     /\ pc \in {"received", "done"}
     /\ pc = "done" => resp.status = 400
     /\ searchCalls = 0
     /\ calls = 0

C10_Witness ==
  /\ req.endpoint = "selfImprove"
  /\ req.prompt.kind = "string" /\ req.prompt.len = 0
  /\ req.mode \in VALID_MODES("selfImprove")
  /\ req.GROQ_API_KEY = ""
  /\ pc = "done" /\ resp.status = 400

(***************************************************************************)
(* Properties of the request pipeline, continued (Spec).                   *)
(***************************************************************************)
\* C11: a request with valid input and mode that meets an absent or
\* placeholder provider credential ends with the configuration error, and
\* neither the search transport nor the completion provider is ever called.
C11_MissingCredentialNoCalls ==
  ( /\ req.body = "object"
    /\ req.prompt.kind = "string" /\ req.prompt.len > 0
    /\ ModeOf(req) \in VALID_MODES(req.endpoint)
    /\ req.GROQ_API_KEY \in {"", PLACEHOLDER_KEY} )
  => /\ pc \in {"received", "done"}
     /\ pc = "done" =>
          resp = [status |-> 500, error |-> "Service configuration error. Please contact support."]
     /\ calls = 0
     /\ searchCalls = 0
     /\ pending = NonePending

C11_Witness ==
  /\ pc = "done"
  /\ req.endpoint = "rewrite"
  /\ req.GROQ_API_KEY = PLACEHOLDER_KEY
  /\ req.SERPAPI_API_KEY = "serp_live"
  /\ req.enableWebAccess
  /\ req.mode = "question-research"
  /\ extractSearchTerms(req.prompt) # "null"
  /\ resp = [status |-> 500, error |-> ERROR_MESSAGES("rewrite").INVALID_API_KEY]
  /\ searchCalls = 0

\* the first search call of the request threw
SearchThrew == searchLog # <<>> /\ searchLog[1].throws

\* C12: when the search transport throws, the request is not aborted: no web
\* data is blended in, the budget check runs, the completion is called when
\* the budget allows, and a success reports webAccessUsed = false and
\* webSources = [].
C12_SearchFailureIsolated ==
  SearchThrew
  => /\ ~webAccessUsed /\ webSources = <<>> /\ webData = ""
     /\ pc # "searching"
     /\ pc = "done" => (budget.checked /\ (budget.ok => calls > 0))
     /\ (pc = "done" /\ resp.status = 200) =>
          (output.present /\ ~output.webAccessUsed /\ output.webSources = <<>>)

C12_Witness ==
  /\ SearchThrew
  /\ pc = "done"
  /\ resp.status = 200
  /\ calls = 1
  /\ output.present /\ ~output.webAccessUsed /\ output.webSources = <<>>

\* C13: whenever the request is answered with success, the normalized text
\* it returns is non-empty.
C13_Original ==
  (pc = "done" /\ resp.status = 200) => output.text # ""

\* the last completion call returned instead of throwing
Completed == calls = Len(errs) + 1 /\ pc = "done"

\* C17: a completion that succeeds with an empty or missing text body ends
\* the request with the generic error, status 500: no further call is made
\* and no normalization result is returned.
C17_EmptyCompletionTerminal ==
  (Completed /\ (~completion.present \/ completion.text = ""))
  => /\ resp = [status |-> 500, error |-> "An unexpected error occurred. Please try again."]
     /\ output = NoOutput
     /\ pending = NonePending

C17_Witness ==
  /\ Completed
  /\ completion = [present |-> TRUE, text |-> ""]
  /\ Len(errs) = 1
  /\ resp.status = 500
  /\ output = NoOutput

\* C20: the outbound operations of a request are strictly sequential: at most
\* one of search call, completion call and backoff wait is in progress at
\* any time, and a search that was started has returned before the budget
\* check and before the first completion attempt.
C20_Sequential ==
  /\ pending.search + pending.completion + pending.timer <= 1
  /\ (pc = "budget" \/ budget.checked \/ calls > 0) =>
       (pending.search = 0 /\ Len(searchLog) = searchCalls)
  /\ pending.search = searchCalls - Len(searchLog)
  /\ pending.timer = Len(waits) - attempt

C20_Witness ==
  /\ pc = "inflight"
  /\ searchCalls = 1 /\ Len(searchLog) = 1
  /\ Len(waits) = 1 /\ attempt = 1
  /\ calls = 2
  /\ pending = [search |-> 0, completion |-> 1, timer |-> 0]

(***************************************************************************)
(* Properties of the completion invoker, continued (SpecInvoker).          *)
(***************************************************************************)
\* C18: a payload-too-large rejection by the provider, status 413 on a
\* completion attempt, is answered with HTTP status 413.
C18_Original ==
  (pc = "done" /\ AllFailed /\ errs[Len(errs)].status = 413) => resp.status = 413

\* the six messages of ERROR_MESSAGES
Catalogue(e) ==
  {ERROR_MESSAGES(e).RATE_LIMIT, ERROR_MESSAGES(e).PAYLOAD_TOO_LARGE,
   ERROR_MESSAGES(e).NETWORK_TIMEOUT, ERROR_MESSAGES(e).INVALID_API_KEY,
   ERROR_MESSAGES(e).SERVICE_UNAVAILABLE, ERROR_MESSAGES(e).GENERIC_ERROR}

\* C19: when the completion invocation fails, the error string of the reply
\* is one of the six catalogue messages, and it is the message of the class
\* of the last error: the raw message and code of provider errors reach the
\* reply only through their class.
C19_CatalogueMessagesOnly ==
  (pc = "done" /\ AllFailed)
  => /\ resp.error \in Catalogue(req.endpoint)
     /\ resp.error \notin Messages
     /\ resp = [status |-> 500, error |-> ClassMessage(FirstClass(errs[Len(errs)]))]

C19_Witness ==
  /\ pc = "done" /\ AllFailed
  /\ Len(errs) = 3
  /\ errs[3] = [status |-> 400, code |-> "", message |-> "boom"]
  /\ errs[1] = [status |-> 0, code |-> "ECONNABORTED", message |-> "timeout of 30000ms exceeded"]
  /\ resp = [status |-> 500, error |-> ERROR_MESSAGES(req.endpoint).GENERIC_ERROR]

(***************************************************************************)
(* Properties of the response normalizer (SpecNormalizer).                 *)
(***************************************************************************)
\* the label each line of a text starts with, "" for a line that starts
\* with none
LineLabels(text) ==
  [i \in DOMAIN SplitLines(text) |-> componentMatch(trim(SplitLines(text)[i]))]

\* how many lines of a text start with the label
LabelCount(text, label) ==
  Cardinality({i \in DOMAIN LineLabels(text) : LineLabels(text)[i] = label})

\* the lines that repeat the label of an earlier line
DuplicateLines(text) ==
  {i \in DOMAIN LineLabels(text) :
     /\ LineLabels(text)[i] # ""
     /\ \E j \in 1..(i - 1) : LineLabels(text)[j] = LineLabels(text)[i]}

\* a reply was cleaned in the structured-section mode
FrameworkCleaned ==
  /\ pc = "done" /\ resp.status = 200
  /\ ModeOf(req) = "framework-optimization"
  /\ HasFrameworkBlock(req.endpoint)

\* C14: for a raw reply in which a label line repeats a label already seen,
\* the output has exactly one line for each label that came before the first
\* duplicate line, and holds no line of the reply from that line onward.
C14_Original ==
  (FrameworkCleaned /\ DuplicateLines(completion.text) # {})
  => LET raw == SplitLines(completion.text)
         d == Least(DuplicateLines(completion.text))
         before == {LineLabels(completion.text)[i] : i \in 1..(d - 1)} \ {""}
         kept == {trim(l) : l \in {SplitLines(output.text)[i] :
                                     i \in DOMAIN SplitLines(output.text)}}
     IN /\ \A label \in before : LabelCount(output.text, label) = 1
        /\ \A i \in d..Len(raw) :
             (trim(raw[i]) # "" /\ \A j \in 1..(d - 1) : raw[j] # raw[i])
             => trim(raw[i]) \notin kept

\* where a label stands in the components array
ComponentIndex(label) == CHOOSE k \in DOMAIN components : components[k] = label

\* C15: the output of the structured-section mode has at most one line for
\* each of the six labels, and its label lines come in the order Role,
\* Context, Task, Format, Rules, Examples.
C15_Original ==
  FrameworkCleaned
  => LET labels == LineLabels(output.text) IN
     /\ \A k \in DOMAIN components : LabelCount(output.text, components[k]) <= 1
     /\ \A i, j \in DOMAIN labels :
          (i < j /\ labels[i] # "" /\ labels[j] # "")
          => ComponentIndex(labels[i]) < ComponentIndex(labels[j])

\* C16: cleaning is idempotent on structured-mode text in which each label
\* starts at most one line.
C16_Original ==
  (FrameworkCleaned /\ DuplicateLines(completion.text) = {})
  => cleanResponse(req.endpoint, output.text, "framework-optimization") = output.text


(***************************************************************************)
(* Properties of the search augmenter (Spec).                              *)
(***************************************************************************)
AlwaysAugmentedModes == {"content-generation", "document-rewriting"}

\* C21: the search transport is called at most once per request, and only by
\* a rewrite request whose web-access flag is true or whose mode is
\* content-generation or document-rewriting; a self-improve request never
\* calls it.
C21_SearchOnlyWhenWanted ==
  /\ searchCalls <= 1
  /\ searchCalls > 0 =>
       /\ req.endpoint \in RewriteEndpoints
       /\ req.enableWebAccess \/ ModeOf(req) \in AlwaysAugmentedModes
  /\ req.endpoint = "selfImprove" => searchCalls = 0

C21_Witness ==
  /\ pc = "done" /\ resp.status = 200
  /\ ~req.enableWebAccess /\ ModeOf(req) = "document-rewriting"
  /\ searchCalls = 1 /\ Len(searchLog) = 1

\* C22: with the search credential missing, or with an input text from which
\* no query can be derived, the augmenter makes no network call and gives
\* empty snippet text and empty sources.
C22_NoQueryNoCall ==
  (req.SERPAPI_API_KEY = "" \/ req.prompt.words = "short") =>
     /\ searchCalls = 0 /\ searchLog = <<>> /\ pending.search = 0
     /\ webData = "" /\ webSources = <<>> /\ ~webAccessUsed

C22_Witness ==
  /\ pc = "done" /\ resp.status = 200
  /\ req.enableWebAccess /\ req.SERPAPI_API_KEY = "serp_live"
  /\ req.prompt.kind = "string" /\ req.prompt.words = "short"
  /\ searchCalls = 0 /\ ~webAccessUsed

\* C23: with the placeholder value as search credential the augmenter makes
\* no network call and the rewrite goes on with empty augmentation, as it
\* does for a missing credential.
C23_Original ==
  req.SERPAPI_API_KEY = PLACEHOLDER_KEY =>
     /\ searchCalls = 0 /\ searchLog = <<>>
     /\ webData = "" /\ webSources = <<>> /\ ~webAccessUsed

(***************************************************************************)
(* Properties of the common stages of the normalizer (SpecNormalizer).     *)
(***************************************************************************)
\* cleanResponse of endpoint e rebuilds the text's structure in this mode
Reconstructs(e, mode) ==
  \/ mode = "framework-optimization" /\ HasFrameworkBlock(e)
  \/ mode = "report-writing"

\* t ends with a suffix of the catalogue of endpoint e
HasCatalogueSuffix(e, t) ==
  \E i \in DOMAIN suffixPatterns(e) : \E k \in DOMAIN suffixPatterns(e)[i] :
     EndsWithCI(trim(t), suffixPatterns(e)[i][k])

\* t begins with a prefix of the catalogue of endpoint e
HasCataloguePrefix(e, t) ==
  \E h \in PrefixHeads(e) : StartsWithCI(TrimStart(t), h)

\* t is wrapped in quote characters
HasWrappingQuotes(t) ==
  \/ StartsWith(trim(t), "\"") /\ EndsWith(trim(t), "\"")
  \/ StartsWith(trim(t), "'") /\ EndsWith(trim(t), "'")

\* the reply h c b is the prefix h with or without its colon, then a text b
\* that has no suffix of the catalogue and no wrapping quotes
PrefixThenText(e, h, c, b) ==
  /\ completion.text = h \o c \o b
  /\ ~HasCatalogueSuffix(e, b)
  /\ ~HasWrappingQuotes(b)

\* the first pattern of the catalogue that matches the reply matches h
FirstMatchIs(e, reply, h) ==
  \E i \in DOMAIN prefixPatterns(e) :
     /\ \E k \in DOMAIN prefixPatterns(e)[i] :
          /\ EqualCI(prefixPatterns(e)[i][k], h)
          /\ \A j \in 1..(k - 1) : ~StartsWithCI(reply, prefixPatterns(e)[i][j])
     /\ \A i0 \in 1..(i - 1) : \A k0 \in DOMAIN prefixPatterns(e)[i0] :
          ~StartsWithCI(reply, prefixPatterns(e)[i0][k0])

\* the claim as stated: in a mode without structural reconstruction, a reply
\* made of a catalogue prefix and a text T without catalogue suffix and
\* without wrapping quotes is normalized to T trimmed.
C24_Original ==
  (pc = "done" /\ resp.status = 200 /\ ~Reconstructs(req.endpoint, ModeOf(req))) =>
     \A h \in PrefixHeads(req.endpoint), c \in {"", ":"}, b \in PrefixedBodies :
        PrefixThenText(req.endpoint, h, c, b) => output.text = trim(b)

\* C24: in a mode without structural reconstruction the stages run in the
\* order trim, prefixes, suffixes, quotes: a reply made of a catalogue prefix
\* (the text that the first matching pattern takes) and a text T that has no
\* catalogue suffix, no wrapping quotes, and that does not itself begin with
\* a colon or with a catalogue prefix, is normalized to T trimmed.
C24_PrefixThenText ==
  (pc = "done" /\ resp.status = 200 /\ ~Reconstructs(req.endpoint, ModeOf(req))) =>
     \A h \in PrefixHeads(req.endpoint), c \in {"", ":"}, b \in PrefixedBodies :
        ( /\ PrefixThenText(req.endpoint, h, c, b)
          /\ FirstMatchIs(req.endpoint, completion.text, h)
          /\ ~StartsWith(TrimStart(b), ":")
          /\ ~HasCataloguePrefix(req.endpoint, b) )
        => output.text = trim(b)

C24_Witness ==
  /\ pc = "done" /\ resp.status = 200
  /\ req.endpoint = "rewrite" /\ ModeOf(req) = "question-research"
  /\ completion.text = "Here is the rewritten prompt: Explain quantum computing with sources."
  /\ output.text = "Explain quantum computing with sources."

\* the text that reaches the quote stage: trimmed, prefixes and suffixes gone
BeforeQuotes(e, response) ==
  StripSuffixes(StripPrefixes(trim(response), prefixPatterns(e)), suffixPatterns(e))

\* the text is one pair of the quote character q around the rest
IsQuotedPair(s, q) == Len(s) >= 2 /\ StartsWith(s, q) /\ EndsWith(s, q)

\* the quote stage as stated: the outer pair of a quoted text goes, any
\* other text stays as it is
UnwrapPairOnly(s) ==
  IF IsQuotedPair(s, "\"") \/ IsQuotedPair(s, "'")
    THEN SubSeq(s, 2, Len(s) - 1) ELSE s

\* C25: the quote stage removes the first and the last character of a text
\* wrapped in one pair of the same quote character, and leaves every other
\* text unchanged, a text of one quote character included (seen in a mode
\* without structural reconstruction, where only the final trim follows).
C25_Original ==
  (pc = "done" /\ resp.status = 200 /\ ~Reconstructs(req.endpoint, ModeOf(req))) =>
     output.text = trim(UnwrapPairOnly(BeforeQuotes(req.endpoint, completion.text)))

\* C26: rewrite and self-improve normalize alike: for every raw reply and
\* every mode that both endpoints accept, the text the answering endpoint
\* gives is the text each other endpoint's normalizer gives for that reply.
C26_Original ==
  (pc = "done" /\ resp.status = 200) =>
     \A e \in Endpoints :
        ModeOf(req) \in VALID_MODES(e) =>
           cleanResponse(e, completion.text, ModeOf(req)) = output.text

(***************************************************************************)
(* The requests the invoker sends and the waits it makes.                  *)
(***************************************************************************)
\* C29: every attempt of one invoker call sends the same request: the
\* messages (system, then user), the temperature and max_tokens of the
\* second and third attempts are those of the first, they are what POST
\* built, and max_tokens never exceeds the completion ceiling of 32768.
C29_ReplayVerbatim ==
  /\ Len(sent) = calls
  /\ \A i \in 1..Len(sent) :
       /\ sent[i] = sent[1]
       /\ sent[i].messages[1].role = "system" /\ sent[i].messages[2].role = "user"
       /\ sent[i].messages[2].length = userMsg.len
       /\ sent[i].temperature = Temperature(req.endpoint, ModeOf(req))
       /\ sent[i].max_tokens = MaxTokens(req.endpoint, ModeOf(req))
       /\ sent[i].max_tokens <= 32768

C29_Witness ==
  /\ pc = "done" /\ resp.status = 200
  /\ Len(sent) = 3 /\ Len(errs) = 2
  /\ sent[3].max_tokens = 3000 /\ sent[3].temperature = 8

RECURSIVE SumOf(_)
SumOf(ws) == IF ws = <<>> THEN 0 ELSE Head(ws) + SumOf(Tail(ws))

\* C30: the wait after the failed attempt i (counted from 0), when it is not
\* the last attempt, is the entry i of the schedule 1 s, 2 s, 4 s, doubled
\* exactly when the error of that attempt has status 429, whatever the
\* earlier failures were; the last attempt is followed by no wait, so the
\* waits of one invoker call sum to at most 6 seconds.
C30_WaitSchedule ==
  /\ Len(waits) <= 2
  /\ Len(waits) <= Len(errs)
  /\ \A i \in 1..Len(waits) :
       waits[i] = IF errs[i].status = 429
                    THEN 2 * <<1000, 2000, 4000>>[i]
                    ELSE <<1000, 2000, 4000>>[i]
  /\ SumOf(waits) <= 6000

C30_Witness ==
  /\ pc = "done" /\ Len(errs) = 3
  /\ errs[1].status = 503 /\ errs[2].status = 429
  /\ waits = <<1000, 4000>>

(***************************************************************************)
(* Termination (SpecLive).                                                 *)
(***************************************************************************)
\* C27: when every outbound call returns or throws and every backoff timer
\* fires, every request ends with a response, which is a success (200), a
\* terminal error or a retry-exhaustion error (400, 413, 500); the response,
\* once made, is never replaced, and the request is then at rest for good.
C27_EventuallyOneResponse ==
  /\ <>[](pc = "done" /\ resp.status \in {200, 400, 413, 500})
  /\ [][resp.status # 0 => (resp' = resp /\ pc' = "done")]_vars
  /\ [](resp.status # 0 <=> pc = "done")

C27_Witness ==
  /\ pc = "done" /\ resp.status = 500
  /\ calls = 3 /\ Len(errs) = 3 /\ Len(waits) = 2
  /\ pending = NonePending

(***************************************************************************)
(* Isolation of concurrent requests (SpecConcurrent).                      *)
(***************************************************************************)
\* every invocation in flight, the running one and the waiting ones
Contexts == {Context} \cup {suspended[i] : i \in DOMAIN suspended}

\* what an invocation got from outside: its request and the outcomes of its
\* own outbound calls so far, with the place it has reached
OwnHistory(c) ==
  [req |-> c.req, pc |-> c.pc, searchLog |-> c.searchLog, errs |-> c.errs,
   completion |-> c.completion]

\* the attempt count, the waits and the augmentation data of c follow from
\* its own failures and its own search outcome: what performWebSearch
\* returned to it and, once POST is past the await, what it blended in
OwnCountsAndData(c) ==
  /\ c.attempt = Len(c.waits) - c.pending.timer
  /\ c.calls = Len(c.errs) + c.pending.completion
                  + (IF c.completion.present THEN 1 ELSE 0)
  /\ Len(c.waits) <= Len(c.errs)
  /\ \A i \in 1..Len(c.waits) :
       c.waits[i] = IF c.errs[i].status = 429 THEN 2 * delays[i] ELSE delays[i]
  /\ Len(c.searchLog) <= 1
  /\ c.webResult = IF c.searchLog = <<>> THEN NoWebResult
                   ELSE SearchResult(c.searchLog[1])
  /\ IF /\ c.searchLog # <<>> /\ HasWebResult(SearchResult(c.searchLog[1]))
        /\ c.pc # "searched"
       THEN /\ c.webAccessUsed
            /\ c.webData = SearchResult(c.searchLog[1]).data
            /\ c.webSources = SearchResult(c.searchLog[1]).sources
       ELSE ~c.webAccessUsed /\ c.webData = "" /\ c.webSources = <<>>

\* C28: concurrent requests share no mutable state: in every interleaving
\* each request's attempt count, waits and augmentation data follow from
\* its own call outcomes, and two requests with the same input and the same
\* outcomes of their own calls are in the same state, final response
\* included, however the other request has run in between.
C28_NoSharedState ==
  /\ \A c \in Contexts : OwnCountsAndData(c)
  /\ \A c1, c2 \in Contexts : OwnHistory(c1) = OwnHistory(c2) => c1 = c2

C28_Witness ==
  /\ Len(suspended) >= 1
  /\ pc = "backoff" /\ attempt = 1 /\ Len(errs) = 2 /\ webAccessUsed
  /\ suspended[1].pc = "inflight" /\ suspended[1].attempt = 2
  /\ suspended[1].req # req

(***************************************************************************)
(* Properties of the framework block, continued (SpecNormalizer).          *)
(***************************************************************************)
\* the reply went through the framework block of cleanResponse
Reconstructed ==
  /\ pc = "done" /\ resp.status = 200
  /\ ModeOf(req) = "framework-optimization"
  /\ HasFrameworkBlock(req.endpoint)

\* the lines of the text that reaches the framework block
BlockLines == SplitLines(CleanCommon(req.endpoint, completion.text))

\* the lines of the normalized text
OutputLines == SplitLines(output.text)

IsLabelLine(line) == componentMatch(trim(line)) # ""

\* the place of the first label line among ls, 0 when there is none
FirstLabelLine(ls) ==
  IF \E i \in DOMAIN ls : IsLabelLine(ls[i])
    THEN Least({i \in DOMAIN ls : IsLabelLine(ls[i])})
    ELSE 0

\* C31: the framework block discards all text in front of the first label:
\* the normalized text, when not empty, begins with a label; a reply
\* without a label line gives the empty text; a line in front of the first
\* label line (that does not come again after it) is no line of the
\* normalized text; and the normalized text is what the reply gives with
\* these lines taken away.
C31_PreambleDiscarded ==
  Reconstructed =>
    LET ls == BlockLines
        k  == FirstLabelLine(ls)
    IN /\ output.text # "" => componentMatch(output.text) # ""
       /\ k = 0 => output.text = ""
       /\ k > 0 =>
            /\ \A i \in 1..(k - 1) :
                 (trim(ls[i]) # "" /\ \A j \in k..Len(ls) : trim(ls[j]) # trim(ls[i]))
                   => \A m \in DOMAIN OutputLines : trim(OutputLines[m]) # trim(ls[i])
            /\ output.text = trim(FormatFramework(JoinLines(SubSeq(ls, k, Len(ls)))))

C31_Witness ==
  /\ Reconstructed
  /\ req.endpoint = "rewrite"
  /\ completion.text = "note\nRole: A\nTask: C"
  /\ output.text = "Role: A\n\nTask: C"

\* a line the scanner adds to the open section as it is: blank, indented or
\* bullet-prefixed
IsSectionLine(line) ==
  \/ trim(line) = ""
  \/ IsSpace(Slice(line, 1, 1))
  \/ StartsWith(trim(line), "-")
  \/ StartsWith(trim(line), Bullet)

\* the place of the first line after the first label line that is neither a
\* label line nor a line of an open section, 0 when there is none
FirstStrayLine(ls) ==
  LET k == FirstLabelLine(ls)
      stray == {i \in DOMAIN ls :
                  k > 0 /\ i > k /\ ~IsLabelLine(ls[i]) /\ ~IsSectionLine(ls[i])}
  IN IF stray = {} THEN 0 ELSE Least(stray)

\* C32: in the line scan of the framework block, a line that is no label
\* line and is not blank, indented or bullet-prefixed, met after the first
\* label, ends the reconstruction: it and everything after it are discarded,
\* so the normalized text is that of the reply cut in front of this line.
C32_Original ==
  Reconstructed =>
    LET ls == BlockLines
        t  == FirstStrayLine(ls)
    IN t > 0 =>
         output.text = trim(FormatFramework(JoinLines(SubSeq(ls, 1, t - 1))))

(***************************************************************************)
(* Properties of the search augmenter, continued (Spec).                   *)
(***************************************************************************)
\* the members of a set of numbers, in rising order
RECURSIVE Ascending(_)
Ascending(S) ==
  IF S = {} THEN <<>> ELSE <<Least(S)>> \o Ascending(S \ {Least(S)})

\* the places of the results that have a title and a snippet, in order
KeptPlaces(results) ==
  Ascending({i \in DOMAIN results : results[i].title # "" /\ results[i].snippet # ""})

\* texts joined by one blank line
RECURSIVE JoinBlankLine(_)
JoinBlankLine(texts) ==
  IF texts = <<>> THEN ""
  ELSE IF Len(texts) = 1 THEN texts[1]
  ELSE texts[1] \o "\n\n" \o JoinBlankLine(Tail(texts))

\* C33: the augmenter keeps exactly the results that have a title and a
\* snippet, in their order: the snippet text is the 'title: snippet' pairs
\* of the kept results joined by one blank line, and the sources are the
\* links of the kept results, one per result, in the same order; a search
\* that throws gives neither.  This is what performWebSearch returns, and
\* what POST holds once it is taken up again after the await.
C33_KeptResults ==
  searchLog # <<>> =>
    LET results == searchLog[1].results
        kept == IF searchLog[1].throws THEN <<>> ELSE KeptPlaces(results)
        data == JoinBlankLine([n \in DOMAIN kept |->
                  results[kept[n]].title \o ": " \o results[kept[n]].snippet])
        sources == [n \in DOMAIN kept |-> results[kept[n]].link]
    IN /\ webResult = [data |-> data, sources |-> sources]
       /\ Len(sources) = Len(kept)
       /\ pc # "searched" =>
            /\ webData = data
            /\ webSources = sources
            /\ webAccessUsed <=> kept # <<>>
       /\ output.present => output.webSources = webSources

C33_Witness ==
  /\ pc = "done" /\ resp.status = 200
  /\ searchLog = <<[throws |-> FALSE,
                    results |-> <<[title |-> "", snippet |-> "S", link |-> "https://b"],
                                  [title |-> "T", snippet |-> "S", link |-> "https://a"]>>]>>
  /\ webData = "T: S"
  /\ output.webSources = <<"https://a">>

(***************************************************************************)
(* Properties of the completion invoker, continued (SpecInvoker).          *)
(***************************************************************************)
\* all three attempts failed with errors of retryable classes, not all of
\* one class
ExhaustedByMixedClasses ==
  /\ pc = "done" /\ Len(errs) = 3 /\ ~completion.present
  /\ \A i \in 1..3 : ClassRetryable(FirstClass(errs[i]))
  /\ \E i, j \in 1..3 : FirstClass(errs[i]) # FirstClass(errs[j])

\* C34: when all attempts of an invoker call fail with retryable errors of
\* different classes, the error surfaced is the message of the class of
\* the third attempt's error, not that of the first or of the most frequent
\* class.
C34_LastClassSurfaces ==
  ExhaustedByMixedClasses =>
    /\ resp = [status |-> 500, error |-> ClassMessage(FirstClass(errs[3]))]
    /\ FirstClass(errs[1]) # FirstClass(errs[3])
         => resp.error # ClassMessage(FirstClass(errs[1]))
    /\ (FirstClass(errs[1]) = FirstClass(errs[2]) /\ FirstClass(errs[2]) # FirstClass(errs[3]))
         => resp.error # ClassMessage(FirstClass(errs[2]))

\* two rate limits, then a client error of no other class: the generic message
C34_Witness ==
  /\ ExhaustedByMixedClasses
  /\ errs[1].status = 429 /\ errs[2].status = 429
  /\ errs[3] = [status |-> 400, code |-> "", message |-> "boom"]
  /\ waits = <<2000, 4000>>
  /\ resp.error = "An unexpected error occurred. Please try again."

(***************************************************************************)
(* Properties of the whole request, continued (Spec).                      *)
(***************************************************************************)
RewriteSuccess ==
  pc = "done" /\ resp.status = 200 /\ req.endpoint \in RewriteEndpoints

\* C35: in every success response of rewrite, webAccessUsed is true exactly
\* when webSources is not empty, and only when a search call was made and
\* gave snippet text; the user message sent to the provider holds the
\* snippet text exactly when webAccessUsed is true.
C35_WebAccessFlag ==
  RewriteSuccess =>
    /\ output.webAccessUsed <=> output.webSources # <<>>
    /\ output.webAccessUsed =>
         /\ searchCalls = 1 /\ Len(searchLog) = 1
         /\ ~searchLog[1].throws
         /\ \E i \in DOMAIN searchLog[1].results :
              searchLog[1].results[i].title # "" /\ searchLog[1].results[i].snippet # ""
         /\ webData # ""
    /\ userMsg.hasWeb <=> output.webAccessUsed
    /\ \A i \in DOMAIN sent :
         /\ sent[i].messages[2].length =
              RewriteUserMessage(req.endpoint, ModeOf(req), req.prompt.len,
                                 output.webAccessUsed, Len(webData))
         /\ output.webAccessUsed <=>
              sent[i].messages[2].length >
                RewriteUserMessage(req.endpoint, ModeOf(req), req.prompt.len, FALSE, 0)

C35_Witness ==
  /\ RewriteSuccess
  /\ output.webAccessUsed /\ output.webSources = <<"", "https://a">>
  /\ userMsg.hasWeb /\ webData = "U: V\n\nT: S"
  /\ ~req.enableWebAccess

\* the estimate of 80% of the context window, in whole tokens
BudgetTokens == (maxContextTokens * 8) \div 10

\* a quarter of len, rounded up
QuarterUp(len) == (len + 3) \div 4

\* C36: the budget check of rewrite is conservative with respect to what is
\* sent: when it passes, the estimate of the system instructions plus the
\* estimate of the user message sent on each attempt is at most 80% of the
\* context window; with augmentation the snippet text is inside the user
\* message and is counted again as the web component, so the total is never
\* below the estimate of the outbound prompt.
C36_BudgetConservative ==
  (budget.checked /\ budget.ok /\ req.endpoint \in RewriteEndpoints) =>
    /\ \A i \in DOMAIN sent :
         LET sysTok  == QuarterUp(sent[i].messages[1].length)
             userTok == QuarterUp(sent[i].messages[2].length)
         IN /\ (sysTok + userTok) * 10 <= maxContextTokens * 8
            /\ sysTok + userTok <= budget.totalInputTokens
    /\ budget.totalInputTokens = budget.systemTokens + budget.userTokens + budget.webTokens
    /\ webAccessUsed =>
         /\ IsCeilOfQuarter(budget.webTokens, Len(webData)) /\ budget.webTokens >= 1
         /\ userMsg.hasWeb
         /\ userMsg.len >= req.prompt.len + Len(webData)
         /\ budget.totalInputTokens > budget.systemTokens + budget.userTokens

\* a request with web data that fills the budget to the last token
C36_Witness ==
  /\ pc = "done" /\ resp.status = 200
  /\ req.endpoint = "rewrite"
  /\ output.webAccessUsed /\ webData = "T: S"
  /\ budget.ok /\ budget.totalInputTokens = 104857
  /\ Len(sent) = 2

\* C37: the endpoints agree on the mode registry: every mode key that a
\* rewrite endpoint accepts is accepted by self-improve, so a self-improve
\* request in a mode of a rewrite registry is never answered with the
\* invalid-mode error.
C37_Original ==
  (/\ req.endpoint = "selfImprove"
   /\ req.body = "object"
   /\ \E e \in RewriteEndpoints : req.mode \in VALID_MODES(e)) =>
     ~(/\ pc = "done"
       /\ resp.status = 400
       /\ resp.error = InvalidModeMessage("selfImprove"))

(***************************************************************************)
(* Properties of the client page (SpecClient).                             *)
(***************************************************************************)
Settled == \A i \in DOMAIN page.fetches : page.fetches[i].state # "pending"

\* a rewrite and a self-improve request are in flight together
BothInFlight == page.isLoading /\ page.isImproving

\* C38: a rewrite and a self-improve request can be in flight together, and
\* once every request has settled the output on display is the result of the
\* request that was started last, when that request was answered with a
\* result: the late reply of an earlier request never replaces it.
C38_Original ==
  (/\ Settled
   /\ page.fetches # <<>>
   /\ page.fetches[Len(page.fetches)].state = "ok") =>
     page.shownFrom = Len(page.fetches)

(***************************************************************************)
(* Properties of the DecryptedText component (SpecDecrypt).                *)
(***************************************************************************)
\* the animation has run to its end
Stopped == decrypted.interval = "cleared" /\ ~decrypted.isDecrypting

\* C39: for every non-empty text the component shows the text itself,
\* character for character, once the interval has stopped, and while the
\* animation runs the characters in front of the index of the frame on
\* display are those of the text.
C39_Original ==
  /\ (decrypted.text # "" /\ Stopped) => Displayed = decrypted.text
  /\ (decrypted.interval = "set" /\ decrypted.currentIndex > 0) =>
       Slice(Displayed, 1, decrypted.currentIndex - 1)
         = Slice(decrypted.text, 1, decrypted.currentIndex - 1)

====
